---------------------------- MODULE Spec2Model ----------------------------
(***************************************************************************)
(* A model of gpu-manager (share/hybrid/gpu-manager.c): the inventory of   *)
(* graphics adapters, its persisted form and the change detection, the     *)
(* PRIME enable/disable sequence with the unload/kill retry, and the       *)
(* policy dispatch of main().                                              *)
(***************************************************************************)
EXTENDS Integers, Sequences, FiniteSets, TLC

(***************************************************************************)
(* Program constants                                                       *)
(***************************************************************************)
AMD == 4098
INTEL == 32902
NVIDIA == 4318
MAX_NR_CARDS == 10
desired_matches == 7
EOF == -1

(***************************************************************************)
(* Bounds of the model                                                     *)
(***************************************************************************)
\* longest inventory drawn as an input of the persistence and diff engine
MaxInv == 2

(***************************************************************************)
(* struct device                                                           *)
(***************************************************************************)
device(b, v, d, dom, bus, dv, fn, c) ==
    [boot_vga |-> b, vendor_id |-> v, device_id |-> d, domain |-> dom,
     bus |-> bus, dev |-> dv, func |-> fn, has_connected_outputs |-> c]

\* has_connected_outputs: 1 outputs connected, 0 none, -1 unknown
Tri == {-1, 0, 1}

(***************************************************************************)
(* Text: a line is a sequence of one-character strings, a file a sequence  *)
(* of lines (each ended by its newline).                                   *)
(***************************************************************************)
HexChars == <<"0", "1", "2", "3", "4", "5", "6", "7", "8", "9",
              "a", "b", "c", "d", "e", "f">>

IsHexChar(c) == \E i \in 1..16 : HexChars[i] = c
IsDecChar(c) == \E i \in 1..10 : HexChars[i] = c
DigitVal(c) == (CHOOSE i \in 1..16 : HexChars[i] = c) - 1
IsSpace(c) == c \in {" ", "\n", "\t"}

RECURSIVE Digits(_, _)
Digits(n, base) ==
    IF n < base THEN <<HexChars[n + 1]>>
    ELSE Append(Digits(n \div base, base), HexChars[(n % base) + 1])

RECURSIVE ZeroPad(_, _)
ZeroPad(s, w) == IF Len(s) >= w THEN s ELSE ZeroPad(<<"0">> \o s, w)

\* printf("%0wx"): w is a minimum width, a wider value is printed in full
FmtHex(n, w) == ZeroPad(Digits(n, 16), w)
\* printf("%d")
FmtDec(n) == IF n < 0 THEN <<"-">> \o Digits(0 - n, 10) ELSE Digits(n, 10)

\* the fprintf of one record: "%04x:%04x;%04x:%02x:%02x:%d;%d\n"
FormatRecord(d) ==
    FmtHex(d.vendor_id, 4) \o <<":">> \o FmtHex(d.device_id, 4) \o <<";">> \o
    FmtHex(d.domain, 4) \o <<":">> \o FmtHex(d.bus, 2) \o <<":">> \o
    FmtHex(d.dev, 2) \o <<":">> \o FmtDec(d.func) \o <<";">> \o
    FmtDec(d.boot_vga) \o <<"\n">>

\* the directives of the sscanf format "%04x:%04x;%04x:%02x:%02x:%d;%d\n"
\* (w = 0: no maximum field width)
ConvX(w) == [t |-> "x", w |-> w, c |-> ""]
ConvD == [t |-> "d", w |-> 0, c |-> ""]
Lit(c) == [t |-> "lit", w |-> 0, c |-> c]
WhiteSpace == [t |-> "ws", w |-> 0, c |-> ""]
RecordFormat ==
    <<ConvX(4), Lit(":"), ConvX(4), Lit(";"), ConvX(4), Lit(":"), ConvX(2),
      Lit(":"), ConvX(2), Lit(":"), ConvD, Lit(";"), ConvD, WhiteSpace>>

RECURSIVE SkipSpace(_, _)
SkipSpace(line, pos) ==
    IF pos <= Len(line) /\ IsSpace(line[pos]) THEN SkipSpace(line, pos + 1)
    ELSE pos

\* how many digit characters of the base follow pos, at most max of them
RECURSIVE CountDigits(_, _, _, _)
CountDigits(line, pos, max, base) ==
    IF max > 0 /\ pos <= Len(line) /\
       (IF base = 16 THEN IsHexChar(line[pos]) ELSE IsDecChar(line[pos]))
    THEN 1 + CountDigits(line, pos + 1, max - 1, base)
    ELSE 0

RECURSIVE DigitsValue(_, _, _, _)
DigitsValue(line, pos, n, base) ==
    IF n = 0 THEN 0
    ELSE DigitsValue(line, pos, n - 1, base) * base + DigitVal(line[pos + n - 1])

\* sscanf: the directives from the k-th on, reading line from pos; vals are
\* the values converted so far.  The result is the number of conversions, or
\* EOF when the input ends before the first one.
RECURSIVE Scan(_, _, _, _, _)
Scan(line, fmt, pos, k, vals) ==
    LET stop == [status |-> IF vals = <<>> /\ pos > Len(line) THEN EOF ELSE Len(vals),
                 vals |-> vals]
    IN
    IF k > Len(fmt) THEN [status |-> Len(vals), vals |-> vals]
    ELSE IF fmt[k].t = "lit" THEN
        IF pos <= Len(line) /\ line[pos] = fmt[k].c
        THEN Scan(line, fmt, pos + 1, k + 1, vals)
        ELSE stop
    ELSE IF fmt[k].t = "ws" THEN
        Scan(line, fmt, SkipSpace(line, pos), k + 1, vals)
    ELSE
        LET p1 == SkipSpace(line, pos)
            neg == p1 <= Len(line) /\ line[p1] = "-"
            p2 == IF neg THEN p1 + 1 ELSE p1
            base == IF fmt[k].t = "x" THEN 16 ELSE 10
            max == IF fmt[k].w = 0 THEN Len(line)
                   ELSE IF neg THEN fmt[k].w - 1 ELSE fmt[k].w
            n == CountDigits(line, p2, max, base)
            v == DigitsValue(line, p2, n, base)
        IN IF n = 0
           THEN [status |-> IF vals = <<>> /\ p1 > Len(line) THEN EOF ELSE Len(vals),
                 vals |-> vals]
           ELSE Scan(line, fmt, p2 + n, k + 1, Append(vals, IF neg THEN 0 - v ELSE v))

sscanf(line, fmt) == Scan(line, fmt, 1, 1, <<>>)

(***************************************************************************)
(* Files: a path holds a file or nothing; a path of ro cannot be opened    *)
(* for writing.  A file that exists can be opened for reading.             *)
(***************************************************************************)
NoFile == [exists |-> FALSE, lines |-> <<>>]
File(lines) == [exists |-> TRUE, lines |-> lines]

\* what malloc may have left in a field the code never sets
UninitVals == {-1, 0, 1}

VARIABLES
    pc,               \* the position of the program
    fs,               \* the files: path -> file
    ro,               \* the paths that cannot be opened for writing or unlinked
    current_devices,  \* struct gpus current_devices (its cards, nr_cards = Len)
    old_devices,      \* struct gpus old_devices
    status,           \* the outcome of the last read_data_from_file
    wstatus,          \* the outcome of the last write_data_to_file
    has_changed,      \* main's has_changed
    cfg,              \* the command line: dry_run, fake_lspci_file, ...
    prev_run,         \* what the earlier runs on this machine left behind
    env,              \* what the machine answers: kernel command line, bus, drm, dkms
    modules,          \* the kernel modules loaded (/proc/modules)
    power,            \* power/control of the discrete device
    loc,              \* the other locals of main
    ep,               \* the locals of enable_prime
    trace             \* the calls made so far, in order

runvars == <<cfg, env, prev_run, modules, power, loc, ep, trace>>

vars == <<pc, fs, ro, current_devices, old_devices, status, wstatus, has_changed,
          cfg, env, prev_run, modules, power, loc, ep, trace>>

(***************************************************************************)
(* State persistence and diff engine                                       *)
(***************************************************************************)
\* the comparison with the func field left out
SixFieldsDiffer(p, c) ==
    \/ p.boot_vga /= c.boot_vga
    \/ p.vendor_id /= c.vendor_id
    \/ p.device_id /= c.device_id
    \/ p.domain /= c.domain
    \/ p.bus /= c.bus
    \/ p.dev /= c.dev

\* the condition of the if in the loop of has_system_changed
SevenFieldsDiffer(p, c) ==
    \/ p.boot_vga /= c.boot_vga
    \/ p.vendor_id /= c.vendor_id
    \/ p.device_id /= c.device_id
    \/ p.domain /= c.domain
    \/ p.bus /= c.bus
    \/ p.dev /= c.dev
    \/ p.func /= c.func

\* the for loop of has_system_changed from index i on (1-based)
RECURSIVE ChangedFrom(_, _, _)
ChangedFrom(prev, current, i) ==
    IF i > Len(prev) THEN FALSE
    ELSE IF SevenFieldsDiffer(prev[i], current[i]) THEN TRUE
    ELSE ChangedFrom(prev, current, i + 1)

has_system_changed(prev, current) ==
    IF Len(prev) /= Len(current) THEN TRUE
    ELSE ChangedFrom(prev, current, 1)

\* write_data_to_file that opens the file and leaves what was in it
write_data_to_file_kept(f, can_open, gpus) == [ret |-> can_open, file |-> f]

\* write_data_to_file on the file at a path: the result and the file left
write_data_to_file(f, can_open, gpus) ==
    IF ~can_open THEN [ret |-> FALSE, file |-> f]
    ELSE [ret |-> TRUE,
          file |-> File([i \in 1..Len(gpus) |-> FormatRecord(gpus[i])])]

\* get_vars: the sscanf status and the record built from the line; junk is
\* the content of the field sscanf does not fill
get_vars(line, junk) ==
    LET r == sscanf(line, RecordFormat)
    IN [status |-> r.status,
        dev |-> IF r.status = EOF \/ r.status /= desired_matches
                THEN device(0, 0, 0, 0, 0, 0, 0, 0)
                ELSE device(r.vals[7], r.vals[1], r.vals[2], r.vals[3],
                            r.vals[4], r.vals[5], r.vals[6], junk)]

\* the fgets loop of read_data_from_file from line i on
RECURSIVE ReadLines(_, _, _, _)
ReadLines(lines, i, gpus, junk) ==
    IF i > Len(lines) \/ Len(gpus) >= MAX_NR_CARDS THEN gpus
    ELSE LET r == get_vars(lines[i], junk[i])
         IN ReadLines(lines, i + 1,
                      IF r.status = desired_matches THEN Append(gpus, r.dev) ELSE gpus,
                      junk)

ZeroRecord == device(0, 0, 0, 0, 0, 0, 0, 0)

\* read_data_from_file creating the file without the zero record
read_data_from_file_empty(f, can_open_w, gpus, junk) ==
    IF f.exists
    THEN [ret |-> 1, file |-> f, gpus |-> ReadLines(f.lines, 1, gpus, junk)]
    ELSE IF ~can_open_w THEN [ret |-> 0, file |-> f, gpus |-> gpus]
    ELSE [ret |-> 2, file |-> File(<<>>), gpus |-> gpus]

\* read_data_from_file: 0 failed, 1 read, 2 created for the first time
read_data_from_file(f, can_open_w, gpus, junk) ==
    IF f.exists
    THEN [ret |-> 1, file |-> f, gpus |-> ReadLines(f.lines, 1, gpus, junk)]
    ELSE IF ~can_open_w THEN [ret |-> 0, file |-> f, gpus |-> gpus]
    ELSE LET g == File(<<FormatRecord(ZeroRecord)>>)
         IN [ret |-> 2, file |-> g, gpus |-> ReadLines(g.lines, 1, gpus, junk)]

\* junk for each line a read may meet
Junk(f) == [1..(IF f.exists /\ Len(f.lines) > 0 THEN Len(f.lines) ELSE 1) -> UninitVals]

(***************************************************************************)
(* Strings                                                                 *)
(***************************************************************************)
\* toupper, for the letters the texts of the model are written with
toupper(c) ==
    LET Lower == <<"a", "b", "c", "d", "e", "f", "m", "n", "o">>
        Upper == <<"A", "B", "C", "D", "E", "F", "M", "N", "O">>
    IN IF \E i \in 1..Len(Lower) : Lower[i] = c
       THEN Upper[CHOOSE i \in 1..Len(Lower) : Lower[i] = c]
       ELSE c

\* does str2 match str1 at position i, with or without regard to case
MatchAt(str1, str2, i, icase) ==
    /\ i + Len(str2) - 1 <= Len(str1)
    /\ \A j \in 1..Len(str2) :
           IF icase THEN toupper(str1[i + j - 1]) = toupper(str2[j])
           ELSE str1[i + j - 1] = str2[j]

\* strstr(hay, needle) != NULL
strstr(str1, str2) == str2 = <<>> \/ \E i \in 1..Len(str1) : MatchAt(str1, str2, i, FALSE)

\* istrstr(str1, str2) != NULL
istrstr(str1, str2) == str2 = <<>> \/ \E i \in 1..Len(str1) : MatchAt(str1, str2, i, TRUE)

starts_with(string, prefix) ==
    IF Len(string) < Len(prefix) THEN FALSE ELSE MatchAt(string, prefix, 1, FALSE)

(***************************************************************************)
(* Small queries                                                           *)
(***************************************************************************)
RECURSIVE SumLen(_, _)
SumLen(lines, i) == IF i > Len(lines) THEN 0 ELSE Len(lines[i]) + SumLen(lines, i + 1)

\* exists_not_empty: the file is there and its size is not 0
exists_not_empty(f) == f.exists /\ SumLen(f.lines, 1) > 0

is_file(f) == f.exists

is_module_loaded(mods, module) == module \in mods

has_unloaded_module(files, mods, module) ==
    is_file(files["nvidia_was_loaded"]) /\ ~is_module_loaded(mods, module)

\* get_prime_action taking the first line as a whole word
get_prime_action_exact(f) ==
    IF ~f.exists THEN "OFF"
    ELSE IF Len(f.lines) = 0 THEN "OFF"
    ELSE IF f.lines[1] = <<"o", "n", "-", "d", "e", "m", "a", "n", "d", "\n">> THEN "ONDEMAND"
    ELSE IF f.lines[1] = <<"o", "n", "\n">> THEN "ON"
    ELSE "OFF"

\* get_prime_action: only the first line of the file is looked at
get_prime_action(f) ==
    IF ~f.exists THEN "OFF"
    ELSE IF Len(f.lines) = 0 THEN "OFF"
    ELSE IF istrstr(f.lines[1], <<"o", "n", "-", "d", "e", "m", "a", "n", "d">>) THEN "ONDEMAND"
    ELSE IF istrstr(f.lines[1], <<"o", "n">>) THEN "ON"
    ELSE "OFF"

\* the index of the first card that is (is not) the boot display; 0 is NULL
RECURSIVE FirstWith(_, _, _)
FirstWith(gpus, i, want_boot) ==
    IF i > Len(gpus) THEN 0
    ELSE IF (gpus[i].boot_vga /= 0) = want_boot THEN i
    ELSE FirstWith(gpus, i + 1, want_boot)

get_boot_vga(gpus) == FirstWith(gpus, 1, TRUE)

get_first_discrete(gpus) == FirstWith(gpus, 1, FALSE)

requires_offloading(gpus) ==
    LET dev == get_boot_vga(gpus)
    IN dev /= 0 /\ gpus[dev].has_connected_outputs = 1 /\ gpus[dev].vendor_id = INTEL

(***************************************************************************)
(* Output connectivity prober: env.drm are the nodes /dev/dri/card*, each  *)
(* with the name of its driver and its number of connected connectors.     *)
(***************************************************************************)
RECURSIVE FirstNode(_, _, _)
FirstNode(nodes, i, driver) ==
    IF i > Len(nodes) THEN 0
    ELSE IF strstr(nodes[i].name, driver) THEN i
    ELSE FirstNode(nodes, i + 1, driver)

\* the prober saying that no output is connected when no node is driven by
\* the driver
has_driver_connected_outputs_none(nodes, driver) ==
    LET n == FirstNode(nodes, 1, driver)
    IN IF n = 0 THEN 0
       ELSE IF nodes[n].connected > 0 THEN 1 ELSE 0

has_driver_connected_outputs(nodes, driver) ==
    LET n == FirstNode(nodes, 1, driver)
    IN IF n = 0 THEN -1
       ELSE IF nodes[n].connected > 0 THEN 1 ELSE 0

DrvAmdgpu == <<"a", "m", "d", "g", "p", "u">>
DrvRadeon == <<"r", "a", "d", "e", "o", "n">>
DrvNouveau == <<"n", "o", "u", "v", "e", "a", "u">>
DrvI915 == <<"i", "9", "1", "5">>

(***************************************************************************)
(* Device inventory builder: env.pci are the functions the bus iterator    *)
(* yields, in its order.                                                   *)
(***************************************************************************)
ConnectedOutputsOf(nodes, vendor_id) ==
    LET amdgpu_has_outputs == has_driver_connected_outputs(nodes, DrvAmdgpu)
        radeon_has_outputs == has_driver_connected_outputs(nodes, DrvRadeon)
        nouveau_has_outputs == has_driver_connected_outputs(nodes, DrvNouveau)
        intel_has_outputs == has_driver_connected_outputs(nodes, DrvI915)
    IN IF vendor_id = AMD
       THEN (IF radeon_has_outputs /= -1 THEN radeon_has_outputs ELSE amdgpu_has_outputs)
       ELSE IF vendor_id = INTEL THEN intel_has_outputs
       ELSE IF vendor_id = NVIDIA THEN nouveau_has_outputs
       ELSE -1

\* the while loop of get_current_devices from the i-th function on
RECURSIVE ScanBus(_, _, _, _)
ScanBus(pci, nodes, i, gpus) ==
    IF i > Len(pci) THEN gpus
    ELSE IF ~pci[i].display THEN ScanBus(pci, nodes, i + 1, gpus)
    ELSE IF pci[i].passthrough THEN ScanBus(pci, nodes, i + 1, gpus)
    ELSE IF Len(gpus) >= MAX_NR_CARDS THEN gpus
    ELSE ScanBus(pci, nodes, i + 1,
                 Append(gpus, [pci[i].dev EXCEPT !.has_connected_outputs =
                                   ConnectedOutputsOf(nodes, pci[i].dev.vendor_id)]))

\* the error of a failed malloc
ENOMEM == 12

\* get_current_devices that leaves the cards it has scanned in the inventory
\* when a device cannot be allocated
get_current_devices_kept(e) ==
    LET gpus == ScanBus(e.pci, e.drm, 1, <<>>)
    IN IF e.pci_fail \in {"init", "iterator"} THEN [ret |-> -1, gpus |-> <<>>]
       ELSE IF e.pci_fail = "alloc" /\ gpus /= <<>> THEN [ret |-> 0 - ENOMEM, gpus |-> gpus]
       ELSE [ret |-> 0, gpus |-> gpus]

\* get_current_devices: 0 and the inventory, or an error and no card. The
\* bus cannot be initialised, the iterator cannot be created, or a device
\* of the inventory cannot be allocated.
get_current_devices(e) ==
    LET gpus == ScanBus(e.pci, e.drm, 1, <<>>)
    IN IF e.pci_fail \in {"init", "iterator"} THEN [ret |-> -1, gpus |-> <<>>]
       ELSE IF e.pci_fail = "alloc" /\ gpus /= <<>> THEN [ret |-> 0 - ENOMEM, gpus |-> <<>>]
       ELSE [ret |-> 0, gpus |-> gpus]

(***************************************************************************)
(* Disabled cards: env.markers are the names found in gpu_detection_path   *)
(* that start with u-d-c-gpu-, in directory order.                         *)
(***************************************************************************)
Lits(s) == [i \in 1..Len(s) |-> Lit(s[i])]

MarkerPrefix == <<"u", "-", "d", "-", "c", "-", "g", "p", "u", "-">>

\* "u-d-c-gpu-%04x:%02x:%02x.%d-0x%04x-0x%04x"
MarkerFormat ==
    Lits(MarkerPrefix) \o
    <<ConvX(4), Lit(":"), ConvX(2), Lit(":"), ConvX(2), Lit("."), ConvD>> \o
    Lits(<<"-", "0", "x">>) \o <<ConvX(4)>> \o Lits(<<"-", "0", "x">>) \o <<ConvX(4)>>

\* the name of the marker left for a disabled device
MarkerName(d) ==
    MarkerPrefix \o FmtHex(d.domain, 4) \o <<":">> \o FmtHex(d.bus, 2) \o <<":">> \o
    FmtHex(d.dev, 2) \o <<".">> \o FmtDec(d.func) \o <<"-", "0", "x">> \o
    FmtHex(d.vendor_id, 4) \o <<"-", "0", "x">> \o FmtHex(d.device_id, 4)

\* add_gpu_from_file: junk is what malloc left in boot_vga, which is not set
add_gpu_from_file(filename, gpus, junk) ==
    LET r == sscanf(filename, MarkerFormat)
    IN IF r.status = EOF \/ r.status /= 6 THEN gpus
       ELSE Append(gpus, device(junk, r.vals[5], r.vals[6], r.vals[1], r.vals[2],
                                r.vals[3], r.vals[4], -1))

\* the readdir loop of find_disabled_cards from the i-th name on
RECURSIVE find_disabled_cards(_, _, _, _)
find_disabled_cards(names, i, gpus, junk) ==
    IF i > Len(names) THEN gpus
    ELSE IF ~starts_with(names[i], MarkerPrefix)
         THEN find_disabled_cards(names, i + 1, gpus, junk)
    ELSE find_disabled_cards(names, i + 1, add_gpu_from_file(names[i], gpus, junk[i]), junk)

(***************************************************************************)
(* The state of a run before main starts                                   *)
(***************************************************************************)
ENOENT == 2
EACCES == 13
EPERM == 1

DefaultCfg ==
    [dry_run |-> FALSE, fake_lspci |-> FALSE, fake_offloading |-> FALSE,
     fake_module_available |-> FALSE, fake_module_versioned |-> FALSE,
     new_boot_file |-> "last_boot"]

DefaultEnv ==
    [disabled_in_cmdline |-> FALSE, pci_fail |-> "none", pci |-> <<>>, drm |-> <<>>,
     dkms |-> {}, versioned |-> {}, markers |-> <<>>, multiarch |-> TRUE,
     faults |-> FALSE]

InitLoc ==
    [nvidia_loaded |-> FALSE, nvidia_unloaded |-> FALSE, intel_loaded |-> FALSE,
     amdgpu_loaded |-> FALSE, nouveau_loaded |-> FALSE,
     nvidia_kmod_available |-> FALSE, amdgpu_kmod_available |-> FALSE,
     amdgpu_versioned |-> FALSE, amdgpu_pro_px_installed |-> FALSE,
     amdgpu_is_pro |-> FALSE, offloading |-> FALSE,
     boot_device |-> 0, discrete_device |-> 0]

InitEp == [prime_mode |-> "OFF", status |-> FALSE, tries |-> 0, caller |-> "", ret |-> FALSE]

\* one call: its name, its argument (for a call made from main that
\* enable_prime makes too, "main"), what it returned (true 1, false 0, or
\* the int returned) and whether an external command was run or a file
\* system call made for it
Ev(op, arg, res, sys) == [op |-> op, arg |-> arg, res |-> res, sys |-> sys]

BoolInt(b) == IF b THEN 1 ELSE 0

(***************************************************************************)
(* Module lifecycle                                                        *)
(***************************************************************************)
\* act_upon_module_with_params without the test of dry_run
act_upon_module_run(module, mode, dry_run, exit_ok) ==
    Ev(IF mode = 1 THEN "load_module" ELSE "unload_module", module, BoolInt(exit_ok), TRUE)

\* act_upon_module_with_params: the command is run unless dry_run, and the
\* result is whether its exit status is 0
act_upon_module(module, mode, dry_run, exit_ok) ==
    IF dry_run THEN Ev(IF mode = 1 THEN "load_module" ELSE "unload_module", module, 1, FALSE)
    ELSE Ev(IF mode = 1 THEN "load_module" ELSE "unload_module", module, BoolInt(exit_ok), TRUE)

\* the exit statuses rmmod and modprobe can give: anything when faults are
\* injected, success otherwise
Exits == IF env.faults THEN BOOLEAN ELSE {TRUE}

\* whether a module whose rmmod failed is still loaded afterwards
StillLoaded(exit_ok) == IF exit_ok THEN {FALSE} ELSE IF env.faults THEN BOOLEAN ELSE {TRUE}

NvidiaCompanions == <<"nvidia-drm", "nvidia-uvm", "nvidia-modeset">>

\* unload_nvidia asking for nvidia first
unload_nvidia_calls_base_first(dry_run, co, ok) ==
    <<act_upon_module("nvidia", 0, dry_run, ok),
      act_upon_module(NvidiaCompanions[1], 0, dry_run, co),
      act_upon_module(NvidiaCompanions[2], 0, dry_run, co),
      act_upon_module(NvidiaCompanions[3], 0, dry_run, co)>>

\* unload_nvidia: the three companions, then nvidia, whose result is
\* returned; co and ok are the exit statuses of the companions' rmmod and of
\* nvidia's
unload_nvidia_calls(dry_run, co, ok) ==
    <<act_upon_module(NvidiaCompanions[1], 0, dry_run, co),
      act_upon_module(NvidiaCompanions[2], 0, dry_run, co),
      act_upon_module(NvidiaCompanions[3], 0, dry_run, co),
      act_upon_module("nvidia", 0, dry_run, ok)>>

(***************************************************************************)
(* Xorg fragments, power control, offloading marker                        *)
(***************************************************************************)
OnText == <<"o", "n", "\n">>
MarkerText == <<"O", "N", "\n">>
OutputClassText == <<"O", "u", "t", "p", "u", "t", "C", "l", "a", "s", "s", "\n">>
ServerLayoutText == <<"S", "e", "r", "v", "e", "r", "L", "a", "y", "o", "u", "t", "\n">>

\* fopen(path, "w") followed by the fprintf of text: the result and the files
WriteFile(files, unwritable, path, text) ==
    IF path \in unwritable THEN [ok |-> FALSE, fs |-> files]
    ELSE [ok |-> TRUE, fs |-> [files EXCEPT ![path] = File(<<text>>)]]

create_prime_settings_off(files, unwritable) ==
    WriteFile(files, unwritable, "prime_settings", <<"o", "f", "f", "\n">>)

create_prime_settings(files, unwritable) ==
    WriteFile(files, unwritable, "prime_settings", OnText)

\* create_prime_outputclass: nothing is opened when dpkg-architecture
\* gives no output
create_prime_outputclass(files, unwritable, multiarch) ==
    IF ~multiarch THEN [ok |-> FALSE, fs |-> files]
    ELSE WriteFile(files, unwritable, "outputclass", OutputClassText)

create_offload_serverlayout(files, unwritable) ==
    WriteFile(files, unwritable, "serverlayout", ServerLayoutText)

remove_xorg_d_custom_file_quiet(files, unwritable, path) ==
    IF ~files[path].exists THEN [ret |-> 0, fs |-> files]
    ELSE IF path \in unwritable THEN [ret |-> 0 - EACCES, fs |-> files]
    ELSE [ret |-> 0, fs |-> [files EXCEPT ![path] = NoFile]]

\* remove_xorg_d_custom_file: 0 when the file was there and unlink removed
\* it, -errno otherwise
remove_xorg_d_custom_file(files, unwritable, path) ==
    IF ~files[path].exists THEN [ret |-> 0 - ENOENT, fs |-> files]
    ELSE IF path \in unwritable THEN [ret |-> 0 - EACCES, fs |-> files]
    ELSE [ret |-> 0, fs |-> [files EXCEPT ![path] = NoFile]]

manage_power_management_on(unwritable, enabled, old) ==
    IF "power_control" \in unwritable THEN [ok |-> FALSE, power |-> old]
    ELSE [ok |-> TRUE, power |-> "on"]

\* manage_power_management: the value written to power/control, if it opens
manage_power_management(unwritable, enabled, old) ==
    IF "power_control" \in unwritable THEN [ok |-> FALSE, power |-> old]
    ELSE [ok |-> TRUE, power |-> IF enabled THEN "auto" ELSE "on"]

\* set_offloading without the test of dry_run
set_offloading_always(files, unwritable, dry_run) ==
    LET w == WriteFile(files, unwritable, "offloading_conf", MarkerText)
    IN [ok |-> w.ok, fs |-> w.fs, sys |-> TRUE]

\* set_offloading
set_offloading(files, unwritable, dry_run) ==
    IF dry_run THEN [ok |-> TRUE, fs |-> files, sys |-> FALSE]
    ELSE LET w == WriteFile(files, unwritable, "offloading_conf", MarkerText)
         IN [ok |-> w.ok, fs |-> w.fs, sys |-> TRUE]

(***************************************************************************)
(* main, up to the policy engine                                           *)
(***************************************************************************)
\* is_module_available: a name in the dkms directory starts with the module's
is_module_available(e, module) == module \in e.dkms

\* is_module_versioned
is_module_versioned(c, e, module) == IF c.dry_run THEN FALSE ELSE module \in e.versioned

\* the facts main collects about the modules
Facts(c, e, files, mods) ==
    LET nvidia_loaded == is_module_loaded(mods, "nvidia")
        avail_nvidia == IF c.fake_lspci THEN c.fake_module_available
                        ELSE is_module_available(e, "nvidia")
        avail_amdgpu == IF c.fake_lspci THEN c.fake_module_available
                        ELSE is_module_available(e, "amdgpu")
        versioned == IF c.fake_lspci THEN c.fake_module_versioned
                     ELSE is_module_versioned(c, e, "amdgpu")
    IN [InitLoc EXCEPT
          !.nvidia_loaded = nvidia_loaded,
          !.nvidia_unloaded = IF nvidia_loaded THEN FALSE
                              ELSE has_unloaded_module(files, mods, "nvidia"),
          !.intel_loaded = is_module_loaded(mods, "i915") \/ is_module_loaded(mods, "i810"),
          !.amdgpu_loaded = is_module_loaded(mods, "amdgpu"),
          !.amdgpu_versioned = versioned,
          !.amdgpu_pro_px_installed = exists_not_empty(files["amdgpu_pro_px"]),
          !.nouveau_loaded = is_module_loaded(mods, "nouveau"),
          !.nvidia_kmod_available = avail_nvidia,
          !.amdgpu_kmod_available = avail_amdgpu,
          !.amdgpu_is_pro = avail_amdgpu /\ versioned]

\* parse_cmd_line without the test of the kernel parameter
StartupAnyway ==
    /\ pc = "main"
    /\ trace' = trace \o <<Ev("parse_cmd_line", "", 0, FALSE),
                            Ev("is_module_loaded", "nvidia", 0, TRUE)>>
    /\ loc' = Facts(cfg, env, fs, modules)
    /\ pc' = "devices"
    /\ UNCHANGED <<fs, ro, current_devices, old_devices, status, wstatus, has_changed,
                   cfg, env, prev_run, modules, power, ep>>

\* parse_cmd_line and the module facts
Startup ==
    /\ pc = "main"
    /\ IF env.disabled_in_cmdline
       THEN /\ trace' = Append(trace, Ev("parse_cmd_line", "", 0 - EPERM, FALSE))
            /\ loc' = loc
            /\ pc' = "end"
       ELSE /\ trace' = trace \o <<Ev("parse_cmd_line", "", 0, FALSE),
                                   Ev("is_module_loaded", "nvidia", 0, TRUE)>>
            /\ loc' = Facts(cfg, env, fs, modules)
            /\ pc' = "devices"
    /\ UNCHANGED <<fs, ro, current_devices, old_devices, status, wstatus, has_changed,
                   cfg, env, prev_run, modules, power, ep>>

\* unlink: the result is not looked at
unlink(files, unwritable, path) ==
    IF files[path].exists /\ path \notin unwritable
    THEN [files EXCEPT ![path] = NoFile] ELSE files

\* the offloading marker is left where it is
RemoveMarkerNever(files, unwritable, offloading, dry_run) == files

\* the offloading marker is removed when offloading is not required
RemoveMarker(files, unwritable, offloading, dry_run) ==
    IF ~offloading /\ ~dry_run THEN unlink(files, unwritable, "offloading_conf") ELSE files

MarkerEvents(offloading, dry_run) ==
    IF ~offloading /\ ~dry_run THEN <<Ev("unlink", "offloading_conf", 0, TRUE)>> ELSE <<>>

\* the inventory is read from the fake lspci file
ReadFakeLspci ==
    /\ pc = "devices"
    /\ cfg.fake_lspci
    /\ LET f == fs["fake_lspci"]
           r == read_data_from_file(f, "fake_lspci" \notin ro, <<>>,
                                    [i \in 1..(Len(f.lines) + 1) |-> -1])
           files == [fs EXCEPT !["fake_lspci"] = r.file]
       IN /\ status' = r.ret
          /\ IF r.ret = 0
             THEN /\ pc' = "end"
                  /\ trace' = Append(trace, Ev("read_data_from_file", "fake_lspci", 0, TRUE))
                  /\ UNCHANGED <<fs, current_devices, loc>>
             ELSE /\ current_devices' =
                        [i \in 1..Len(r.gpus) |-> [r.gpus[i] EXCEPT !.has_connected_outputs = -1]]
                  /\ loc' = [loc EXCEPT !.offloading = cfg.fake_offloading]
                  /\ fs' = RemoveMarker(files, ro, cfg.fake_offloading, cfg.dry_run)
                  /\ trace' = trace \o <<Ev("read_data_from_file", "fake_lspci", r.ret, TRUE)>>
                                    \o MarkerEvents(cfg.fake_offloading, cfg.dry_run)
                  /\ pc' = "read_last"
    /\ UNCHANGED <<ro, old_devices, wstatus, has_changed, cfg, env, prev_run, modules,
                   power, ep>>

\* the inventory is taken from the PCI bus
GetCurrentDevices ==
    /\ pc = "devices"
    /\ ~cfg.fake_lspci
    /\ LET r == get_current_devices(env)
           offloading == requires_offloading(r.gpus)
       IN IF r.ret /= 0
          THEN /\ pc' = "end"
               /\ trace' = Append(trace, Ev("get_current_devices", "", r.ret, TRUE))
               /\ current_devices' = r.gpus
               /\ UNCHANGED <<fs, loc>>
          ELSE /\ current_devices' = r.gpus
               /\ loc' = [loc EXCEPT !.offloading = offloading]
               /\ fs' = RemoveMarker(fs, ro, offloading, cfg.dry_run)
               /\ trace' = trace \o <<Ev("get_current_devices", "", 0, TRUE)>>
                                 \o MarkerEvents(offloading, cfg.dry_run)
               /\ pc' = "read_last"
    /\ UNCHANGED <<ro, old_devices, status, wstatus, has_changed, cfg, env, prev_run, modules,
                   power, ep>>

\* the last-boot file is read, or created
ReadLastBoot ==
    /\ pc = "read_last"
    /\ \E junk \in Junk(fs["last_boot"]) :
         LET r == read_data_from_file(fs["last_boot"], "last_boot" \notin ro, <<>>, junk)
         IN /\ status' = r.ret
            /\ old_devices' = r.gpus
            /\ fs' = [fs EXCEPT !["last_boot"] = r.file]
            /\ trace' = Append(trace, Ev("read_data_from_file", "last_boot", r.ret, TRUE))
            /\ pc' = IF r.ret = 0 THEN "end" ELSE "write_new"
    /\ UNCHANGED <<ro, current_devices, wstatus, has_changed, cfg, env, prev_run, modules, power,
                   loc, ep>>

\* the inventory is written and, written or not, compared with the last
\* boot's
WriteNewBootGoesOn ==
    /\ pc = "write_new"
    /\ LET path == cfg.new_boot_file
           w == write_data_to_file(fs[path], path \notin ro, current_devices)
           boot == get_boot_vga(current_devices)
       IN /\ wstatus' = w.ret
          /\ fs' = [fs EXCEPT ![path] = w.file]
          /\ trace' = Append(trace, Ev("write_data_to_file", path, BoolInt(w.ret), TRUE))
          /\ old_devices' = <<>>
          /\ has_changed' = has_system_changed(old_devices, current_devices)
          /\ loc' = [loc EXCEPT !.boot_device = boot]
          /\ pc' = IF boot = 0 THEN "end" ELSE "policy"
    /\ UNCHANGED <<ro, current_devices, status, cfg, env, prev_run, modules, power, ep>>

\* the inventory is written, then compared with the last boot's, and the
\* boot display looked for; old_devices is not read after the comparison
\* and is let go here rather than at end
WriteNewBoot ==
    /\ pc = "write_new"
    /\ LET path == cfg.new_boot_file
           w == write_data_to_file(fs[path], path \notin ro, current_devices)
           boot == get_boot_vga(current_devices)
       IN /\ wstatus' = w.ret
          /\ fs' = [fs EXCEPT ![path] = w.file]
          /\ trace' = Append(trace, Ev("write_data_to_file", path, BoolInt(w.ret), TRUE))
          /\ old_devices' = <<>>
          /\ IF ~w.ret
             THEN /\ pc' = "end"
                  /\ UNCHANGED <<has_changed, loc>>
             ELSE /\ has_changed' = has_system_changed(old_devices, current_devices)
                  /\ loc' = [loc EXCEPT !.boot_device = boot]
                  /\ pc' = IF boot = 0 THEN "end" ELSE "policy"
    /\ UNCHANGED <<ro, current_devices, status, cfg, env, prev_run, modules, power, ep>>

(***************************************************************************)
(* The policy engine: the branches of main                                 *)
(***************************************************************************)
nr_cards == Len(current_devices)

BootVendor == current_devices[loc.boot_device].vendor_id

\* the AMDGPU-Pro test without the change of the system
AmdgpuProCondUnchanged ==
    loc.amdgpu_loaded /\ loc.amdgpu_is_pro /\ loc.amdgpu_pro_px_installed

AmdgpuProCond ==
    has_changed /\ loc.amdgpu_loaded /\ loc.amdgpu_is_pro /\ loc.amdgpu_pro_px_installed

PrimeCond == loc.offloading /\ loc.nvidia_unloaded

\* the Optimus test without the Intel module
OptimusCondNoIntel ==
    loc.offloading /\ (~loc.nouveau_loaded /\
                       (loc.nvidia_loaded \/ loc.nvidia_kmod_available))

OptimusCond ==
    loc.offloading /\ (loc.intel_loaded /\ ~loc.nouveau_loaded /\
                       (loc.nvidia_loaded \/ loc.nvidia_kmod_available))

\* where main goes once the AMDGPU-Pro switchable branch is done: the
\* NVIDIA Optimus test is its else
AfterAmdSwitchableNoElse == "optimus_test"
AfterAmdSwitchable == "end"

\* the exit statuses of the amdgpu-pro-px script
run_amdgpu_pro_px(action, dry_run, exit_ok) ==
    IF dry_run THEN Ev("run_amdgpu_pro_px", action, 1, FALSE)
    ELSE Ev("run_amdgpu_pro_px", action, BoolInt(exit_ok), TRUE)

EnterPrime(caller, discrete) ==
    /\ ep' = [InitEp EXCEPT !.caller = caller]
    /\ loc' = [loc EXCEPT !.discrete_device = discrete]
    /\ pc' = "enable_prime"

\* the single-Intel branch writing the inventory again after the disabled
\* cards were added
PrimeSingleIntelPersist ==
    /\ pc = "policy"
    /\ nr_cards = 1 /\ BootVendor = INTEL /\ PrimeCond
    /\ \E junk \in [1..Len(env.markers) -> UninitVals] :
         LET gpus == find_disabled_cards(env.markers, 1, current_devices, junk)
             discrete == get_first_discrete(gpus)
             path == cfg.new_boot_file
         IN /\ current_devices' = gpus
            /\ fs' = [fs EXCEPT ![path] = write_data_to_file(fs[path], path \notin ro, gpus).file]
            /\ IF discrete = 0
               THEN /\ pc' = "end"
                    /\ loc' = loc
                    /\ ep' = ep
                    /\ trace' = Append(trace, Ev("find_disabled_cards", "", Len(gpus), TRUE))
               ELSE /\ EnterPrime("prime", discrete)
                    /\ trace' = trace \o <<Ev("find_disabled_cards", "", Len(gpus), TRUE),
                                           Ev("enable_prime", "prime", 0, FALSE)>>
    /\ UNCHANGED <<ro, old_devices, status, wstatus, has_changed, cfg, env, prev_run, modules,
                   power>>

\* single Intel card, offloading required and nvidia unloaded: the disabled
\* cards are added from their marker files
PrimeSingleIntel ==
    /\ pc = "policy"
    /\ nr_cards = 1 /\ BootVendor = INTEL /\ PrimeCond
    /\ \E junk \in [1..Len(env.markers) -> UninitVals] :
         LET gpus == find_disabled_cards(env.markers, 1, current_devices, junk)
             discrete == get_first_discrete(gpus)
         IN /\ current_devices' = gpus
            /\ IF discrete = 0
               THEN /\ pc' = "end"
                    /\ loc' = loc
                    /\ ep' = ep
                    /\ trace' = Append(trace, Ev("find_disabled_cards", "", Len(gpus), TRUE))
               ELSE /\ EnterPrime("prime", discrete)
                    /\ trace' = trace \o <<Ev("find_disabled_cards", "", Len(gpus), TRUE),
                                           Ev("enable_prime", "prime", 0, FALSE)>>
    /\ UNCHANGED <<fs, ro, old_devices, status, wstatus, has_changed, cfg, env, prev_run, modules,
                   power>>

\* single AMD card on a changed system with the AMDGPU-Pro stack
AmdReset ==
    /\ pc = "policy"
    /\ nr_cards = 1 /\ BootVendor = AMD /\ AmdgpuProCond
    /\ \E exit_ok \in Exits :
         trace' = Append(trace, run_amdgpu_pro_px("reset", cfg.dry_run, exit_ok))
    /\ pc' = "end"
    /\ UNCHANGED <<fs, ro, current_devices, old_devices, status, wstatus, has_changed,
                   cfg, env, prev_run, modules, power, loc, ep>>

\* single NVIDIA card: the offload ServerLayout is removed
SingleNvidia ==
    /\ pc = "policy"
    /\ nr_cards = 1 /\ BootVendor = NVIDIA
    /\ LET r == remove_xorg_d_custom_file(fs, ro, "serverlayout")
       IN /\ fs' = r.fs
          /\ trace' = trace \o <<Ev("remove_offload_serverlayout", "main", r.ret, TRUE)>> \o
                      (IF r.ret = 0 - ENOENT THEN <<Ev("nothing_to_do", "", 0, FALSE)>>
                       ELSE <<>>)
    /\ pc' = "end"
    /\ UNCHANGED <<ro, current_devices, old_devices, status, wstatus, has_changed,
                   cfg, env, prev_run, modules, power, loc, ep>>

\* more cards, none of which is not the boot display
NoDiscrete ==
    /\ pc = "policy"
    /\ nr_cards > 1 /\ get_first_discrete(current_devices) = 0
    /\ pc' = "end"
    /\ UNCHANGED <<fs, ro, current_devices, old_devices, status, wstatus, has_changed,
                   cfg, env, prev_run, modules, power, loc, ep, trace>>

\* Intel and another card on a changed system with the AMDGPU-Pro stack
AmdSwitchable ==
    /\ pc = "policy"
    /\ nr_cards > 1 /\ get_first_discrete(current_devices) /= 0
    /\ BootVendor = INTEL /\ AmdgpuProCond
    /\ \E exit_ok \in Exits :
         trace' = Append(trace, run_amdgpu_pro_px("mode powersaving", cfg.dry_run, exit_ok))
    /\ loc' = [loc EXCEPT !.discrete_device = get_first_discrete(current_devices)]
    /\ pc' = AfterAmdSwitchable
    /\ UNCHANGED <<fs, ro, current_devices, old_devices, status, wstatus, has_changed,
                   cfg, env, prev_run, modules, power, ep>>

\* Intel and another card: NVIDIA Optimus
Optimus ==
    /\ \/ pc = "policy" /\ ~AmdgpuProCond
       \/ pc = "optimus_test"
    /\ nr_cards > 1 /\ get_first_discrete(current_devices) /= 0
    /\ BootVendor = INTEL /\ OptimusCond
    /\ EnterPrime("optimus", get_first_discrete(current_devices))
    /\ trace' = Append(trace, Ev("enable_prime", "optimus", 0, FALSE))
    /\ UNCHANGED <<fs, ro, current_devices, old_devices, status, wstatus, has_changed,
                   cfg, env, prev_run, modules, power>>

\* nothing to do, and the offloading marker written all the same
NothingToDoMarked ==
    /\ \/ /\ pc = "policy"
          /\ nr_cards = 1
          /\ \/ BootVendor = INTEL /\ ~PrimeCond
             \/ BootVendor = AMD /\ ~AmdgpuProCond
             \/ BootVendor \notin {INTEL, AMD, NVIDIA}
       \/ /\ pc = "policy"
          /\ nr_cards > 1 /\ get_first_discrete(current_devices) /= 0
          /\ \/ BootVendor = INTEL /\ ~AmdgpuProCond /\ ~OptimusCond
             \/ BootVendor /= INTEL
       \/ /\ pc = "optimus_test"
          /\ ~OptimusCond
    /\ trace' = IF nr_cards = 1 /\ BootVendor \notin {INTEL, AMD, NVIDIA} THEN trace
                ELSE Append(trace, Ev("nothing_to_do", "", 0, FALSE))
    /\ pc' = "end"
    /\ fs' = set_offloading(fs, ro, cfg.dry_run).fs
    /\ UNCHANGED <<ro, current_devices, old_devices, status, wstatus, has_changed,
                   cfg, env, prev_run, modules, power, loc, ep>>

\* every other case: nothing is done, which the log says except for a single
\* card of another vendor
NothingToDo ==
    /\ \/ /\ pc = "policy"
          /\ nr_cards = 1
          /\ \/ BootVendor = INTEL /\ ~PrimeCond
             \/ BootVendor = AMD /\ ~AmdgpuProCond
             \/ BootVendor \notin {INTEL, AMD, NVIDIA}
       \/ /\ pc = "policy"
          /\ nr_cards > 1 /\ get_first_discrete(current_devices) /= 0
          /\ \/ BootVendor = INTEL /\ ~AmdgpuProCond /\ ~OptimusCond
             \/ BootVendor /= INTEL
       \/ /\ pc = "optimus_test"
          /\ ~OptimusCond
    /\ trace' = IF nr_cards = 1 /\ BootVendor \notin {INTEL, AMD, NVIDIA} THEN trace
                ELSE Append(trace, Ev("nothing_to_do", "", 0, FALSE))
    /\ pc' = "end"
    /\ UNCHANGED <<fs, ro, current_devices, old_devices, status, wstatus, has_changed,
                   cfg, env, prev_run, modules, power, loc, ep>>

(***************************************************************************)
(* enable_prime                                                            *)
(***************************************************************************)
EpReturn(ret) ==
    /\ ep' = [ep EXCEPT !.ret = ret]
    /\ pc' = "enable_prime_done"

\* the settings file is created when missing or empty, then read
EpSettings ==
    /\ pc = "enable_prime"
    /\ IF ~exists_not_empty(fs["prime_settings"])
       THEN LET c == create_prime_settings(fs, ro)
            IN /\ fs' = c.fs
               /\ trace' = Append(trace, Ev("create_prime_settings", "", BoolInt(c.ok), TRUE))
               /\ IF ~c.ok THEN EpReturn(FALSE)
                  ELSE /\ ep' = [ep EXCEPT !.prime_mode = get_prime_action(c.fs["prime_settings"])]
                       /\ pc' = "prime_mode"
       ELSE /\ ep' = [ep EXCEPT !.prime_mode = get_prime_action(fs["prime_settings"])]
            /\ pc' = "prime_mode"
            /\ UNCHANGED <<fs, trace>>
    /\ UNCHANGED <<ro, current_devices, old_devices, status, wstatus, has_changed,
                   cfg, env, prev_run, modules, power, loc>>

EnsureLoadedAlways(calls) ==
    \E exit_ok \in Exits :
      /\ trace' = trace \o calls \o <<act_upon_module("nvidia", 1, cfg.dry_run, exit_ok)>>
      /\ modules' = IF ~cfg.dry_run /\ exit_ok THEN modules \cup {"nvidia"} ELSE modules

\* load_module("nvidia") when nvidia is not loaded
EnsureLoaded(calls) ==
    IF is_module_loaded(modules, "nvidia")
    THEN /\ trace' = trace \o calls
         /\ modules' = modules
    ELSE \E exit_ok \in Exits :
           /\ trace' = trace \o calls \o <<act_upon_module("nvidia", 1, cfg.dry_run, exit_ok)>>
           /\ modules' = IF ~cfg.dry_run /\ exit_ok THEN modules \cup {"nvidia"} ELSE modules

\* mode ON: OutputClass created, ServerLayout removed, power management
\* disabled, nvidia loaded
EpOn ==
    /\ pc = "prime_mode"
    /\ ep.prime_mode = "ON"
    /\ LET c == create_prime_outputclass(fs, ro, env.multiarch)
           r == remove_xorg_d_custom_file(c.fs, ro, "serverlayout")
           m == manage_power_management(ro, FALSE, power)
       IN /\ fs' = r.fs
          /\ power' = m.power
          /\ EnsureLoaded(<<Ev("create_prime_outputclass", "", BoolInt(c.ok), TRUE),
                            Ev("remove_offload_serverlayout", "", r.ret, TRUE),
                            Ev("manage_power_management", "on", BoolInt(m.ok), TRUE)>>)
    /\ EpReturn(TRUE)
    /\ UNCHANGED <<ro, current_devices, old_devices, status, wstatus, has_changed,
                   cfg, env, prev_run, loc>>

\* mode ONDEMAND: ServerLayout created, OutputClass removed, power management
\* enabled, nvidia loaded
EpOnDemand ==
    /\ pc = "prime_mode"
    /\ ep.prime_mode = "ONDEMAND"
    /\ LET c == create_offload_serverlayout(fs, ro)
           r == remove_xorg_d_custom_file(c.fs, ro, "outputclass")
           m == manage_power_management(ro, TRUE, power)
       IN /\ fs' = r.fs
          /\ power' = m.power
          /\ EnsureLoaded(<<Ev("create_offload_serverlayout", "", BoolInt(c.ok), TRUE),
                            Ev("remove_prime_outputclass", "", r.ret, TRUE),
                            Ev("manage_power_management", "auto", BoolInt(m.ok), TRUE)>>)
    /\ EpReturn(TRUE)
    /\ UNCHANGED <<ro, current_devices, old_devices, status, wstatus, has_changed,
                   cfg, env, prev_run, loc>>

\* mode OFF: both fragments removed
EpOff ==
    /\ pc = "prime_mode"
    /\ ep.prime_mode = "OFF"
    /\ LET r1 == remove_xorg_d_custom_file(fs, ro, "outputclass")
           r2 == remove_xorg_d_custom_file(r1.fs, ro, "serverlayout")
       IN /\ fs' = r2.fs
          /\ trace' = trace \o <<Ev("remove_prime_outputclass", "", r1.ret, TRUE),
                                 Ev("remove_offload_serverlayout", "", r2.ret, TRUE)>>
    /\ pc' = "unload_again"
    /\ UNCHANGED <<ro, current_devices, old_devices, status, wstatus, has_changed,
                   cfg, env, prev_run, modules, power, loc, ep>>

\* enable_power_management at the end of mode OFF
OffPower(events) ==
    LET m == manage_power_management(ro, TRUE, power)
    IN /\ power' = m.power
       /\ trace' = trace \o events \o <<Ev("manage_power_management", "auto", BoolInt(m.ok), TRUE)>>

\* unload_again: nvidia is unloaded if loaded
UnloadAgain ==
    /\ pc = "unload_again"
    /\ IF is_module_loaded(modules, "nvidia")
       THEN \E co \in Exits, ok \in Exits :
            \E still \in IF cfg.dry_run THEN {TRUE} ELSE StillLoaded(ok) :
              LET calls == unload_nvidia_calls(cfg.dry_run, co, ok)
                  st == calls[4].res = 1
                  gone == (IF ~cfg.dry_run /\ co
                           THEN {NvidiaCompanions[i] : i \in 1..3} ELSE {}) \cup
                          (IF still THEN {} ELSE {"nvidia"})
                  mods == modules \ gone
              IN /\ modules' = mods
                 /\ IF ~st /\ is_module_loaded(mods, "nvidia")
                    THEN IF ep.tries = 0
                         THEN /\ trace' = trace \o calls
                              /\ ep' = [ep EXCEPT !.status = st]
                              /\ pc' = "kill"
                              /\ power' = power
                         ELSE /\ trace' = trace \o calls \o <<Ev("giving_up", "", 0, FALSE)>>
                              /\ ep' = [ep EXCEPT !.status = st, !.ret = FALSE]
                              /\ pc' = "enable_prime_done"
                              /\ power' = power
                    ELSE /\ OffPower(calls)
                         /\ ep' = [ep EXCEPT !.status = st, !.ret = TRUE]
                         /\ pc' = "enable_prime_done"
       ELSE /\ OffPower(<<>>)
            /\ EpReturn(TRUE)
            /\ modules' = modules
    /\ UNCHANGED <<fs, ro, current_devices, old_devices, status, wstatus, has_changed,
                   cfg, env, prev_run, loc>>

\* what kill_main_display_session can meet: no session, a kill that fails,
\* a kill that works
KillOutcomes == IF env.faults THEN {"no_pid", "failed", "killed"} ELSE {"killed"}

kill_main_display_session(dry_run, outcome) ==
    IF dry_run THEN Ev("kill_main_display_session", "", 1, FALSE)
    ELSE Ev("kill_main_display_session", "", BoolInt(outcome = "killed"), outcome /= "no_pid")

\* the first unload failed: the display session is killed, and the unload
\* tried again if that worked
KillSession ==
    /\ pc = "kill"
    /\ \E outcome \in KillOutcomes :
         LET k == kill_main_display_session(cfg.dry_run, outcome)
         IN IF k.res = 1
            THEN /\ trace' = Append(trace, k)
                 /\ ep' = [ep EXCEPT !.status = TRUE, !.tries = ep.tries + 1]
                 /\ pc' = "unload_again"
                 /\ power' = power
            ELSE /\ OffPower(<<k>>)
                 /\ ep' = [ep EXCEPT !.status = FALSE, !.ret = TRUE]
                 /\ pc' = "enable_prime_done"
    /\ UNCHANGED <<fs, ro, current_devices, old_devices, status, wstatus, has_changed,
                   cfg, env, prev_run, modules, loc>>

\* back in main: the offloading marker is written whatever enable_prime returned
SetOffloadingAnyway ==
    /\ pc = "enable_prime_done"
    /\ LET w == set_offloading(fs, ro, cfg.dry_run)
       IN /\ fs' = w.fs
          /\ trace' = trace \o <<Ev("enable_prime_return", ep.caller, BoolInt(ep.ret), FALSE),
                                 Ev("set_offloading", "", BoolInt(w.ok), w.sys)>>
    /\ pc' = "end"
    /\ UNCHANGED <<ro, current_devices, old_devices, status, wstatus, has_changed,
                   cfg, env, prev_run, modules, power, loc, ep>>

\* back in main: the offloading marker is written if enable_prime returned true
SetOffloading ==
    /\ pc = "enable_prime_done"
    /\ IF ep.ret
       THEN LET w == set_offloading(fs, ro, cfg.dry_run)
            IN /\ fs' = w.fs
               /\ trace' = trace \o <<Ev("enable_prime_return", ep.caller, 1, FALSE),
                                      Ev("set_offloading", "", BoolInt(w.ok), w.sys)>>
       ELSE /\ fs' = fs
            /\ trace' = trace \o <<Ev("enable_prime_return", ep.caller, 0, FALSE)>> \o
                        (IF ep.caller = "optimus" THEN <<Ev("nothing_to_do", "", 0, FALSE)>>
                         ELSE <<>>)
    /\ pc' = "end"
    /\ UNCHANGED <<ro, current_devices, old_devices, status, wstatus, has_changed,
                   cfg, env, prev_run, modules, power, loc, ep>>

(***************************************************************************)
(* The systems a run starts on                                             *)
(***************************************************************************)
Paths ==
    {"last_boot", "new_boot", "fake_lspci", "prime_settings", "outputclass",
     "serverlayout", "offloading_conf", "nvidia_was_loaded", "amdgpu_pro_px"}

NoFiles == [p \in Paths |-> NoFile]

Present == File(<<<<"x", "\n">>>>)

\* a line that is not a record
GarbageLine == <<"#", "\n">>

DevIntel(b) == device(b, INTEL, 358, 0, 0, 2, 0, -1)
DevNvidia(b) == device(b, NVIDIA, 4416, 0, 1, 0, 0, -1)
DevAmd(b) == device(b, AMD, 26880, 0, 1, 0, 0, -1)
DevOther(b) == device(b, 4660, 1, 0, 2, 0, 0, -1)

\* the inventories: none, single cards, hybrids in either bus order, two
\* boot displays
Inventories ==
    {<<>>, <<DevIntel(1)>>, <<DevAmd(1)>>, <<DevNvidia(1)>>, <<DevOther(1)>>,
     <<DevIntel(0)>>, <<DevIntel(1), DevNvidia(0)>>, <<DevIntel(1), DevAmd(0)>>,
     <<DevNvidia(0), DevIntel(1)>>, <<DevAmd(1), DevNvidia(0)>>,
     <<DevIntel(1), DevNvidia(1)>>}

PciFunction(d) == [display |-> TRUE, passthrough |-> FALSE, dev |-> d]

PciOf(inv) == [i \in 1..Len(inv) |-> PciFunction(inv[i])]

Node(name, connected) == [name |-> name, connected |-> connected]

\* the DRM nodes: none, i915 with and without a connected output
DrmCases == {<<>>, <<Node(DrvI915, 1)>>, <<Node(DrvI915, 0)>>}

NvidiaStack == {"nvidia", "nvidia-drm", "nvidia-uvm", "nvidia-modeset"}

\* nvidia: loaded, unloaded after having been loaded, never loaded
NvCases == {"loaded", "unloaded", "never"}

NvModules(nv) == IF nv = "loaded" THEN NvidiaStack ELSE {}

\* i915 and nouveau
OpenCases == {{"i915"}, {}, {"i915", "nouveau"}}

\* amdgpu: loaded, dkms module, versioned, amdgpu-pro-px installed: all, all
\* but one, none
AmdCases ==
    {<<TRUE, TRUE, TRUE, TRUE>>, <<FALSE, TRUE, TRUE, TRUE>>, <<TRUE, FALSE, TRUE, TRUE>>,
     <<TRUE, TRUE, FALSE, TRUE>>, <<TRUE, TRUE, TRUE, FALSE>>,
     <<FALSE, FALSE, FALSE, FALSE>>}

InventoryFile(inv) == File([i \in 1..Len(inv) |-> FormatRecord(inv[i])])

\* the last-boot file: the inventory of this boot, or none
Scenario(c, e, files, unwritable, mods) ==
    [cfg |-> c, env |-> e, fs |-> files, ro |-> unwritable, modules |-> mods]

\* a system as it is, with the kernel's view of the bus
RealSystem(inv, drm, nv, open, dk, amd, same) ==
    Scenario(DefaultCfg,
             [DefaultEnv EXCEPT !.pci = PciOf(inv), !.drm = drm,
                                !.dkms = (IF dk THEN {"nvidia"} ELSE {}) \cup
                                         (IF amd[2] THEN {"amdgpu"} ELSE {}),
                                !.versioned = IF amd[3] THEN {"amdgpu"} ELSE {}],
             [NoFiles EXCEPT !["last_boot"] =
                                 IF same THEN InventoryFile(ScanBus(PciOf(inv), drm, 1, <<>>))
                                 ELSE NoFile,
                             !["offloading_conf"] = Present,
                             !["nvidia_was_loaded"] = IF nv = "unloaded" THEN Present ELSE NoFile,
                             !["amdgpu_pro_px"] = IF amd[4] THEN Present ELSE NoFile],
             {},
             NvModules(nv) \cup open \cup (IF amd[1] THEN {"amdgpu"} ELSE {}))

\* a test run: --dry-run with a fake lspci file and fake module facts
TestSystem(inv, offloading, nv, open, avail, versioned, amd, same) ==
    Scenario([DefaultCfg EXCEPT !.dry_run = TRUE, !.fake_lspci = TRUE,
                                !.fake_offloading = offloading,
                                !.fake_module_available = avail,
                                !.fake_module_versioned = versioned],
             DefaultEnv,
             [NoFiles EXCEPT !["fake_lspci"] = InventoryFile(inv),
                             !["last_boot"] = IF same THEN InventoryFile(inv) ELSE NoFile,
                             !["offloading_conf"] = Present,
                             !["nvidia_was_loaded"] = IF nv = "unloaded" THEN Present ELSE NoFile,
                             !["amdgpu_pro_px"] = IF amd THEN Present ELSE NoFile],
             {},
             NvModules(nv) \cup open \cup (IF amd THEN {"amdgpu"} ELSE {}))

\* the fake module facts of a test run and amdgpu loaded with amdgpu-pro-px
FakeAmdCases ==
    {<<TRUE, TRUE, TRUE>>, <<TRUE, TRUE, FALSE>>, <<TRUE, FALSE, TRUE>>,
     <<FALSE, TRUE, TRUE>>, <<FALSE, FALSE, FALSE>>}

\* every inventory with every state of the NVIDIA and open modules, with
\* and without the whole AMDGPU-Pro stack; every inventory with every
\* state of the AMDGPU-Pro stack; a single NVIDIA card with and without the
\* fragments; the test runs
PolicySystems ==
    {RealSystem(inv, drm, nv, open, dk, amd[1], amd[2]) :
        inv \in Inventories, drm \in DrmCases, nv \in NvCases, open \in OpenCases,
        dk \in BOOLEAN,
        amd \in {<<<<FALSE, FALSE, FALSE, FALSE>>, FALSE>>,
                 <<<<TRUE, TRUE, TRUE, TRUE>>, FALSE>>,
                 <<<<TRUE, TRUE, TRUE, TRUE>>, TRUE>>}}
    \cup
    {RealSystem(inv, drm, "never", {"i915"}, FALSE, amd, same) :
        inv \in Inventories, drm \in DrmCases, amd \in AmdCases, same \in BOOLEAN}
    \cup
    {[RealSystem(<<DevNvidia(1)>>, <<>>, nv, {}, TRUE, <<FALSE, FALSE, FALSE, FALSE>>, same) EXCEPT
         !.fs["serverlayout"] = sl, !.fs["outputclass"] = oc, !.ro = unwritable] :
        nv \in NvCases, same \in BOOLEAN, sl \in {NoFile, Present},
        oc \in {NoFile, Present}, unwritable \in {{}, {"serverlayout"}}}
    \cup
    {TestSystem(inv, offloading, nv, {"i915"}, amd[1], amd[2], amd[3], same) :
        inv \in Inventories, offloading \in BOOLEAN, nv \in NvCases,
        amd \in FakeAmdCases, same \in BOOLEAN}

\* the PRIME systems: a single Intel card with the markers of the disabled
\* cards (none, NVIDIA, AMD then NVIDIA), and Intel with a second card
PrimeMachines ==
    {<<<<DevIntel(1)>>, <<MarkerName(DevNvidia(0))>>>>,
     <<<<DevIntel(1)>>, <<>>>>,
     <<<<DevIntel(1)>>, <<MarkerName(DevAmd(0)), MarkerName(DevNvidia(0))>>>>,
     <<<<DevIntel(1), DevNvidia(0)>>, <<>>>>,
     <<<<DevIntel(1), DevAmd(0)>>, <<>>>>}

\* the settings file: missing, empty, on, on-demand, off
SettingsCases ==
    {NoFile, File(<<>>), File(<<OnText>>),
     File(<<<<"o", "n", "-", "d", "e", "m", "a", "n", "d", "\n">>>>),
     File(<<<<"o", "f", "f", "\n">>>>)}

\* what cannot be opened for writing or removed, if anything; "multiarch"
\* stands for dpkg-architecture giving no output
FaultCases ==
    {"none", "prime_settings", "outputclass", "serverlayout", "power_control",
     "offloading_conf", "multiarch"}

PrimeSystem(m, nv, settings, fragments, fault, test) ==
    Scenario([DefaultCfg EXCEPT !.dry_run = test, !.fake_lspci = test,
                                !.fake_offloading = TRUE, !.fake_module_available = TRUE],
             [DefaultEnv EXCEPT !.pci = PciOf(m[1]), !.drm = <<Node(DrvI915, 1)>>,
                                !.dkms = {"nvidia"}, !.markers = m[2],
                                !.multiarch = (fault /= "multiarch"), !.faults = TRUE],
             [NoFiles EXCEPT !["fake_lspci"] = IF test THEN InventoryFile(m[1]) ELSE NoFile,
                             !["last_boot"] = NoFile,
                             !["nvidia_was_loaded"] = IF nv = "unloaded" THEN Present ELSE NoFile,
                             !["prime_settings"] = settings,
                             !["outputclass"] = IF fragments THEN Present ELSE NoFile,
                             !["serverlayout"] = IF fragments THEN Present ELSE NoFile],
             {fault} \ {"none", "multiarch"},
             NvModules(nv) \cup {"i915"})

PrimeSystems ==
    {PrimeSystem(m, nv, settings, fragments, fault, test) :
        m \in PrimeMachines, nv \in {"loaded", "unloaded"}, settings \in SettingsCases,
        fragments \in BOOLEAN, fault \in FaultCases, test \in BOOLEAN}

\* the systems on which the run ends early: the kernel parameter, a bus
\* that cannot be scanned, files that cannot be opened, a separate new-boot
\* file, --dry-run on the real bus, a marker that cannot be removed, nodes of
\* other drivers, functions that are not display controllers or are assigned
\* to a guest
SetupBase == RealSystem(<<DevIntel(1), DevNvidia(0)>>, <<Node(DrvI915, 1)>>, "loaded",
                        {"i915"}, TRUE, <<FALSE, FALSE, FALSE, FALSE>>, TRUE)

SetupTest == TestSystem(<<DevIntel(1), DevNvidia(0)>>, TRUE, "loaded", {"i915"},
                        TRUE, FALSE, FALSE, TRUE)

SetupSystems ==
    {[SetupBase EXCEPT !.env.disabled_in_cmdline = TRUE],
     [SetupTest EXCEPT !.env.disabled_in_cmdline = TRUE],
     [SetupBase EXCEPT !.env.pci_fail = "init"],
     [SetupBase EXCEPT !.env.pci_fail = "iterator"],
     [SetupBase EXCEPT !.env.pci_fail = "alloc", !.env.drm = <<Node(DrvI915, 0)>>],
     [SetupBase EXCEPT !.env.pci_fail = "alloc", !.env.pci = <<>>],
     [SetupBase EXCEPT !.cfg.dry_run = TRUE],
     [SetupBase EXCEPT !.env.drm = <<Node(DrvI915, 0)>>, !.ro = {"offloading_conf"}],
     [SetupBase EXCEPT !.env.drm = <<Node(DrvNouveau, 1)>>],
     [SetupBase EXCEPT !.env.drm = <<Node(DrvNouveau, 1), Node(DrvI915, 0), Node(DrvI915, 1)>>],
     [SetupBase EXCEPT !.env.pci =
          <<[display |-> FALSE, passthrough |-> FALSE, dev |-> DevOther(0)],
            PciFunction(DevIntel(1)),
            [display |-> TRUE, passthrough |-> TRUE, dev |-> DevNvidia(0)]>>],
     [SetupTest EXCEPT !.fs["fake_lspci"] = NoFile],
     [SetupTest EXCEPT !.fs["fake_lspci"] = NoFile, !.ro = {"fake_lspci"}],
     [SetupTest EXCEPT !.fs["fake_lspci"] = File(<<GarbageLine>>)]}
    \cup
    {[b EXCEPT !.fs["last_boot"] = last, !.ro = unwritable, !.cfg.new_boot_file = new] :
        b \in {SetupBase, SetupTest}, last \in {NoFile, SetupTest.fs["last_boot"]},
        unwritable \in {{}, {"last_boot"}, {"new_boot"}},
        new \in {"last_boot", "new_boot"}}

(***************************************************************************)
(* One run of gpu-manager                                                  *)
(***************************************************************************)
\* the program starts on system s
Starts(s) ==
    /\ pc = "main"
    /\ cfg = s.cfg
    /\ env = s.env
    /\ fs = s.fs
    /\ ro = s.ro
    /\ modules = s.modules
    /\ current_devices = <<>>
    /\ old_devices = <<>>
    /\ status = 0
    /\ wstatus = FALSE
    /\ has_changed = FALSE
    /\ power = "unset"
    /\ loc = InitLoc
    /\ ep = InitEp
    /\ trace = <<>>
    /\ prev_run = <<>>

Init == \E s \in PolicySystems \cup PrimeSystems \cup SetupSystems : Starts(s)

Next ==
    \/ Startup
    \/ ReadFakeLspci
    \/ GetCurrentDevices
    \/ ReadLastBoot
    \/ WriteNewBoot
    \/ PrimeSingleIntel
    \/ AmdReset
    \/ SingleNvidia
    \/ NoDiscrete
    \/ AmdSwitchable
    \/ Optimus
    \/ NothingToDo
    \/ EpSettings
    \/ EpOn
    \/ EpOnDemand
    \/ EpOff
    \/ UnloadAgain
    \/ KillSession
    \/ SetOffloading

Spec == Init /\ [][Next]_vars

(***************************************************************************)
(* Run after run on one machine: the files, the loaded modules and the     *)
(* power control are what the run before left; the globals are those of a  *)
(* new process.                                                            *)
(***************************************************************************)
MaxRuns == 2

\* the PRIME systems on which nothing fails
QuietPrimeSystems ==
    {[PrimeSystem(m, nv, settings, fragments, "none", test) EXCEPT !.env.faults = FALSE] :
        m \in PrimeMachines, nv \in {"loaded", "unloaded"}, settings \in SettingsCases,
        fragments \in BOOLEAN, test \in BOOLEAN}

\* what a run leaves on the machine
Left == [fs |-> fs, modules |-> modules, power |-> power]

\* the process has exited and gpu-manager is started again
Restart ==
    /\ pc = "end"
    /\ Len(prev_run) + 1 < MaxRuns
    /\ prev_run' = Append(prev_run, Left)
    /\ pc' = "main"
    /\ current_devices' = <<>>
    /\ old_devices' = <<>>
    /\ status' = 0
    /\ wstatus' = FALSE
    /\ has_changed' = FALSE
    /\ loc' = InitLoc
    /\ ep' = InitEp
    /\ trace' = <<>>
    /\ UNCHANGED <<fs, ro, cfg, env, modules, power>>

InitTwice == \E s \in PolicySystems \cup PrimeSystems \cup QuietPrimeSystems : Starts(s)

NextTwice == Next \/ Restart

SpecTwice == InitTwice /\ [][NextTwice]_vars

(***************************************************************************)
(* Single functions, each applied once to inputs of its own: the settings  *)
(* reader on texts put together from a few words, the module commands on   *)
(* every module, mode, dry_run and exit status, and the three sources of   *)
(* cards (the bus, a file of records, the marker files) on more entries    *)
(* than struct gpus has room for.                                          *)
(***************************************************************************)
MaxWords == 3
MaxEntries == 11

\* what the first line of the settings file is put together from
Words ==
    {<<"o", "n">>, <<"O", "N">>, <<"o", "f", "f">>, <<"n">>, <<"o">>, <<"-">>, <<" ">>,
     <<"-", "d", "e", "m", "a", "n", "d">>, <<"-", "D", "e", "m", "a", "n", "d">>, <<"1">>}

RECURSIVE Texts(_)
Texts(n) ==
    IF n = 0 THEN {<<>>}
    ELSE LET shorter == Texts(n - 1) IN shorter \cup {t \o w : t \in shorter, w \in Words}

\* the i-th of many cards: the first is the Intel boot display
Card(i) == device(IF i = 1 THEN 1 ELSE 0, IF i = 1 THEN INTEL ELSE NVIDIA, 4416, 0, i, 0, 0, -1)

Cards(n) == [i \in 1..n |-> Card(i)]

UnitStarts(p, c, e, files, l, gpus) ==
    /\ pc = p
    /\ cfg = c
    /\ env = e
    /\ fs = files
    /\ loc = l
    /\ current_devices = gpus
    /\ ro = {}
    /\ modules = {}
    /\ old_devices = <<>>
    /\ status = 0
    /\ wstatus = FALSE
    /\ has_changed = FALSE
    /\ power = "unset"
    /\ ep = InitEp
    /\ trace = <<>>
    /\ prev_run = <<>>

InitUnit ==
    \/ \E t \in Texts(MaxWords) :
         \E f \in {NoFile, File(<<>>), File(<<t \o <<"\n">>>>),
                   File(<<t \o <<"\n">>, OnText>>), File(<<t \o <<"1">>>>)} :
            UnitStarts("get_prime_action", DefaultCfg, DefaultEnv,
                       [NoFiles EXCEPT !["prime_settings"] = f], InitLoc, <<>>)
    \/ \E module \in NvidiaStack \cup {"amdgpu", "i915", "nouveau"}, mode \in {0, 1},
          dry_run \in BOOLEAN, exit_ok \in BOOLEAN :
            UnitStarts("act_upon_module", [DefaultCfg EXCEPT !.dry_run = dry_run], DefaultEnv,
                       NoFiles, [module |-> module, mode |-> mode, exit_ok |-> exit_ok], <<>>)
    \/ \E n \in 0..MaxEntries :
         \/ UnitStarts("get_current_devices", DefaultCfg,
                       [DefaultEnv EXCEPT !.pci = PciOf(Cards(n))], NoFiles, InitLoc, <<>>)
         \/ UnitStarts("read_data_from_file", [DefaultCfg EXCEPT !.fake_lspci = TRUE],
                       DefaultEnv, [NoFiles EXCEPT !["fake_lspci"] = InventoryFile(Cards(n))],
                       InitLoc, <<>>)
         \/ UnitStarts("find_disabled_cards", DefaultCfg,
                       [DefaultEnv EXCEPT !.markers = [i \in 1..n |-> MarkerName(Card(i + 1))]],
                       NoFiles, InitLoc, Cards(1))

\* get_prime_action(prime_settings)
UnitPrimeAction ==
    /\ pc = "get_prime_action"
    /\ ep' = [ep EXCEPT !.prime_mode = get_prime_action(fs["prime_settings"])]
    /\ pc' = "got_prime_action"
    /\ UNCHANGED <<fs, ro, current_devices, old_devices, status, wstatus, has_changed,
                   cfg, env, prev_run, modules, power, loc, trace>>

\* load_module(module) or unload_module(module)
UnitActUponModule ==
    /\ pc = "act_upon_module"
    /\ trace' = <<act_upon_module(loc.module, loc.mode, cfg.dry_run, loc.exit_ok)>>
    /\ pc' = "acted_upon_module"
    /\ UNCHANGED <<fs, ro, current_devices, old_devices, status, wstatus, has_changed,
                   cfg, env, prev_run, modules, power, loc, ep>>

\* get_current_devices(&current_devices)
UnitGetCurrentDevices ==
    /\ pc = "get_current_devices"
    /\ LET r == get_current_devices(env)
       IN /\ current_devices' = r.gpus
          /\ status' = r.ret
    /\ pc' = "got_cards"
    /\ UNCHANGED <<fs, ro, old_devices, wstatus, has_changed, cfg, env, prev_run, modules,
                   power, loc, ep, trace>>

\* read_data_from_file(&current_devices, fake_lspci_file); every record gets
\* the same junk here
UnitReadData ==
    /\ pc = "read_data_from_file"
    /\ \E junk \in UninitVals :
         LET f == fs["fake_lspci"]
             r == read_data_from_file(f, TRUE, <<>>, [i \in 1..(Len(f.lines) + 1) |-> junk])
         IN /\ current_devices' = r.gpus
            /\ status' = r.ret
    /\ pc' = "got_cards"
    /\ UNCHANGED <<fs, ro, old_devices, wstatus, has_changed, cfg, env, prev_run, modules,
                   power, loc, ep, trace>>

\* find_disabled_cards(gpu_detection_path, &current_devices, add_gpu_from_file),
\* called with the one card of the single-Intel branch; every record gets
\* the same junk.  A sequence longer than MAX_NR_CARDS stands for the
\* writes past the end of cards[].
UnitFindDisabledCards ==
    /\ pc = "find_disabled_cards"
    /\ \E junk \in UninitVals :
         current_devices' = find_disabled_cards(env.markers, 1, current_devices,
                                                [i \in 1..Len(env.markers) |-> junk])
    /\ pc' = "got_cards"
    /\ UNCHANGED <<fs, ro, old_devices, status, wstatus, has_changed, cfg, env, prev_run,
                   modules, power, loc, ep, trace>>

NextUnit ==
    \/ UnitPrimeAction
    \/ UnitActUponModule
    \/ UnitGetCurrentDevices
    \/ UnitReadData
    \/ UnitFindDisabledCards

SpecUnit == InitUnit /\ [][NextUnit]_vars

(***************************************************************************)
(* The engine on its own: an inventory and a last-boot file are given, and *)
(* the three operations are applied.                                       *)
(***************************************************************************)
BaseDev == device(1, INTEL, 358, 0, 0, 2, 0, 1)

\* the devices of the inventories given: BaseDev, records that differ from
\* it in one field (among them a PCI domain wider than 16 bits), and a
\* record of zeroes as a fake bus-data file can hold
CurDevs ==
    {BaseDev,
     [BaseDev EXCEPT !.boot_vga = 0],
     [BaseDev EXCEPT !.vendor_id = NVIDIA],
     [BaseDev EXCEPT !.device_id = 65535],
     [BaseDev EXCEPT !.domain = 1],
     [BaseDev EXCEPT !.domain = 65536],
     [BaseDev EXCEPT !.bus = 255],
     [BaseDev EXCEPT !.dev = 31],
     [BaseDev EXCEPT !.func = 7],
     [BaseDev EXCEPT !.has_connected_outputs = -1],
     ZeroRecord}

SeqsUpTo(S, n) == UNION {[1..k -> S] : k \in 0..n}


\* the last-boot files given: none, one written for an earlier inventory,
\* and one holding a line that is no record
PrevFiles ==
    {NoFile}
    \cup {File([i \in 1..Len(p) |-> FormatRecord(p[i])]) : p \in SeqsUpTo({BaseDev}, MaxInv)}
    \cup {File(<<GarbageLine, FormatRecord(BaseDev)>>)}

InitState ==
    /\ pc = "s_in"
    /\ current_devices \in SeqsUpTo(CurDevs, MaxInv)
    /\ \E f \in PrevFiles : fs = [p \in {"last_boot"} |-> f]
    /\ ro \in {{}, {"last_boot"}}
    /\ old_devices = <<>>
    /\ status = 0
    /\ wstatus = FALSE
    /\ has_changed = FALSE
    /\ cfg = DefaultCfg
    /\ env = DefaultEnv
    /\ modules = {}
    /\ power = "unset"
    /\ loc = InitLoc
    /\ ep = InitEp
    /\ trace = <<>>
    /\ prev_run = <<>>

StateWrite ==
    /\ pc = "s_in"
    /\ LET r == write_data_to_file(fs["last_boot"], "last_boot" \notin ro, current_devices)
       IN /\ wstatus' = r.ret
          /\ fs' = [fs EXCEPT !["last_boot"] = r.file]
    /\ pc' = "s_written"
    /\ UNCHANGED <<ro, current_devices, old_devices, status, has_changed, runvars>>

StateRead ==
    /\ pc \in {"s_in", "s_written"}
    /\ \E junk \in Junk(fs["last_boot"]) :
         LET r == read_data_from_file(fs["last_boot"], "last_boot" \notin ro, <<>>, junk)
         IN /\ status' = r.ret
            /\ old_devices' = r.gpus
            /\ fs' = [fs EXCEPT !["last_boot"] = r.file]
    /\ pc' = IF pc = "s_in" THEN "s_read" ELSE "s_reread"
    /\ UNCHANGED <<ro, current_devices, wstatus, has_changed, runvars>>

StateDiff ==
    /\ pc \in {"s_read", "s_reread"}
    /\ status /= 0
    /\ has_changed' = has_system_changed(old_devices, current_devices)
    /\ pc' = "s_diffed"
    /\ UNCHANGED <<fs, ro, current_devices, old_devices, status, wstatus, runvars>>

NextState == StateWrite \/ StateRead \/ StateDiff

SpecState == InitState /\ [][NextState]_vars

(***************************************************************************)
(* Properties of the persistence and diff engine                           *)
(***************************************************************************)
\* the fields of a record that are persisted and compared
Locant(d) == <<d.boot_vga, d.vendor_id, d.device_id, d.domain, d.bus, d.dev, d.func>>

\* C1: has_system_changed(prev, curr) is true exactly when the card counts
\* differ or, the counts being equal, some position differs in boot_vga,
\* vendor_id, device_id, domain, bus, dev or func; has_connected_outputs
\* plays no part.
C1_ChangedExactly ==
    pc = "s_diffed" =>
        (has_changed <=>
            \/ Len(old_devices) /= Len(current_devices)
            \/ \E i \in 1..Len(old_devices) :
                   Locant(old_devices[i]) /= Locant(current_devices[i]))

\* two inventories that agree at every position except in connectivity
\* were compared and found unchanged
C1_Witness ==
    /\ pc = "s_diffed"
    /\ ~has_changed
    /\ Len(current_devices) = 2
    /\ \E i \in 1..Len(current_devices) :
           old_devices[i].has_connected_outputs /=
               current_devices[i].has_connected_outputs

\* C2: an inventory written with write_data_to_file and read back with
\* read_data_from_file comes back with outcome 1, the same card count and
\* the same vendor_id, device_id, domain, bus, dev, func and boot_vga at
\* every position.
C2_RoundTrip ==
    (pc = "s_reread" /\ wstatus) =>
        /\ status = 1
        /\ Len(old_devices) = Len(current_devices)
        /\ \A i \in 1..Len(old_devices) :
               Locant(old_devices[i]) = Locant(current_devices[i])

SentinelLine ==
    <<"0", "0", "0", "0", ":", "0", "0", "0", "0", ";", "0", "0", "0", "0", ":",
      "0", "0", ":", "0", "0", ":", "0", ";", "0", "\n">>

\* C3: reading a path that does not exist and can be created gives outcome
\* 2, leaves a file of exactly one all-zero record and gives an inventory
\* of one all-zero device; that inventory compared with any non-empty
\* inventory of real devices (vendor id not 0) has changed.
C3_FirstRead ==
    /\ [][(/\ pc = "s_in"
           /\ ~fs["last_boot"].exists
           /\ "last_boot" \notin ro
           /\ pc' = "s_read")
          => (/\ status' = 2
              /\ fs'["last_boot"] = File(<<SentinelLine>>)
              /\ Len(old_devices') = 1
              /\ Locant(old_devices'[1]) = <<0, 0, 0, 0, 0, 0, 0>>)]_vars
    /\ []((/\ pc = "s_diffed"
           /\ status = 2
           /\ current_devices /= <<>>
           /\ \A i \in 1..Len(current_devices) : current_devices[i].vendor_id /= 0)
          => has_changed)

\* the sentinel of a first read was compared with a real inventory
C3_Witness ==
    /\ pc = "s_diffed"
    /\ status = 2
    /\ fs["last_boot"] = File(<<SentinelLine>>)
    /\ Len(current_devices) = 1
    /\ current_devices[1].vendor_id = INTEL
    /\ has_changed

(***************************************************************************)
(* Properties of enable_prime                                              *)
(***************************************************************************)
\* enable_prime has been entered
Entered == \E i \in 1..Len(trace) : trace[i].op = "enable_prime"

\* enable_prime has returned to main, which has not gone on yet
Returned == pc = "enable_prime_done"

\* the calls made since enable_prime was entered
EpEvents ==
    LET start == CHOOSE i \in 1..Len(trace) : trace[i].op = "enable_prime"
    IN SubSeq(trace, start + 1, Len(trace))

\* the same without the creation of the settings file
EpBody ==
    IF EpEvents /= <<>> /\ EpEvents[1].op = "create_prime_settings" THEN Tail(EpEvents)
    ELSE EpEvents

Calls(events, op, arg) == {i \in 1..Len(events) : events[i].op = op /\ events[i].arg = arg}

Unloads == Calls(EpEvents, "unload_module", "nvidia")

Kills == Calls(EpEvents, "kill_main_display_session", "")

PowerWrites == {i \in 1..Len(EpEvents) : EpEvents[i].op = "manage_power_management"}

\* enable_prime returned from mode off
ReturnedOff ==
    /\ Returned
    /\ ep.prime_mode = "OFF"
    /\ EpEvents /= <<>>
    /\ EpEvents[1].op = "remove_prime_outputclass"

\* C4: in mode off, whatever the unloads, the module-loaded observations and
\* the session kill give, kill_main_display_session is called at most once
\* and unload_nvidia at most twice; when every unload fails and the module
\* stays loaded, enable_prime returns false after exactly two attempts.
C4_ReclaimBound ==
    /\ Entered => Cardinality(Kills) <= 1 /\ Cardinality(Unloads) <= 2
    /\ (/\ ReturnedOff
        /\ Unloads /= {}
        /\ \A i \in Unloads : EpEvents[i].res = 0
        /\ is_module_loaded(modules, "nvidia"))
       => (~ep.ret /\ Cardinality(Unloads) = 2)

\* the part of C4 that the code keeps: at most one kill, at most two unloads,
\* and a second unload only after a kill that worked
C4_AtMostOneRetry ==
    Entered =>
        /\ Cardinality(Kills) <= 1
        /\ Cardinality(Unloads) <= 2
        /\ Cardinality(Unloads) = 2 =>
               \E k \in Kills : EpEvents[k].res = 1 /\ \E i, j \in Unloads : i < k /\ k < j

\* C5 as stated: mode off sets the power control to auto on every path,
\* the terminal failure included.
C5_PowerOnEveryPath ==
    ReturnedOff =>
        /\ PowerWrites /= {}
        /\ EpEvents[Len(EpEvents)] \in
               {Ev("manage_power_management", "auto", r, TRUE) : r \in {0, 1}}

\* C5, amended: mode off asks for the removal of the OutputClass and of the
\* ServerLayout, which are gone unless unlink failed, then unloads nvidia
\* if loaded; if enable_prime returns true its last call sets the power
\* control to auto, the only write to it; if it returns false (the second
\* unload failed too) the power control is not written and the module is
\* still loaded; outside a dry run the module is unloaded at return or an
\* unload failure was logged.
C5_ModeOff ==
    ReturnedOff =>
        /\ Len(EpEvents) >= 2
        /\ EpEvents[2].op = "remove_offload_serverlayout"
        /\ EpEvents[1].res \in {0, 0 - ENOENT} => ~fs["outputclass"].exists
        /\ EpEvents[2].res \in {0, 0 - ENOENT} => ~fs["serverlayout"].exists
        /\ \A i \in Unloads \cup Kills \cup PowerWrites : i > 2
        /\ IF ep.ret
           THEN /\ PowerWrites = {Len(EpEvents)}
                /\ EpEvents[Len(EpEvents)].arg = "auto"
                /\ EpEvents[Len(EpEvents)].res = 1 => power = "auto"
           ELSE /\ PowerWrites = {}
                /\ power = "unset"
                /\ Cardinality(Unloads) = 2
                /\ is_module_loaded(modules, "nvidia")
        /\ ~cfg.dry_run =>
               \/ ~is_module_loaded(modules, "nvidia")
               \/ \E i \in Unloads : EpEvents[i].res = 0

\* the first unload failed, the session was killed, the second unload
\* failed: enable_prime gave up without writing the power control
C5_Witness ==
    /\ ReturnedOff
    /\ ~ep.ret
    /\ Cardinality(Unloads) = 2
    /\ Cardinality(Kills) = 1
    /\ power = "unset"
    /\ ~fs["outputclass"].exists
    /\ ~fs["serverlayout"].exists

\* the run is over
Ended == pc = "end"

\* C6: a single Intel boot display, nvidia unloaded after having been
\* loaded, offloading required, settings on-demand: the run ends with the
\* ServerLayout present, the OutputClass absent, nvidia loaded and the
\* offloading marker written. Here for the runs in which the marker of the
\* disabled NVIDIA card is there, nothing is a dry run, every file can be
\* written and every command works.
C6_SingleIntelOnDemand ==
    (/\ Ended
     /\ ~cfg.dry_run /\ ~cfg.fake_lspci
     /\ env.pci = PciOf(<<DevIntel(1)>>)
     /\ env.markers = <<MarkerName(DevNvidia(0))>>
     /\ loc.nvidia_unloaded
     /\ loc.offloading
     /\ get_prime_action(fs["prime_settings"]) = "ONDEMAND"
     /\ ro = {}
     /\ \A i \in 1..Len(trace) : trace[i].op = "load_module" => trace[i].res = 1)
    => (/\ fs["serverlayout"].exists
        /\ ~fs["outputclass"].exists
        /\ is_module_loaded(modules, "nvidia")
        /\ fs["offloading_conf"] = File(<<MarkerText>>))

\* C7: when the settings file is missing or empty as enable_prime starts,
\* it is created with the line on and mode on is applied: the OutputClass
\* is written (it exists if the write worked) and nvidia is loaded (a load
\* is requested if it is not, and outside a dry run it is loaded if
\* modprobe worked); if the file cannot be created, enable_prime returns
\* false and no file, power control or module has changed.
C7_SettingsCreated ==
    /\ [][(pc = "enable_prime" /\ ~exists_not_empty(fs["prime_settings"]))
          => IF "prime_settings" \notin ro
             THEN /\ fs'["prime_settings"] = File(<<OnText>>)
                  /\ ep'.prime_mode = "ON"
                  /\ pc' = "prime_mode"
             ELSE /\ pc' = "enable_prime_done"
                  /\ ~ep'.ret
                  /\ fs' = fs /\ power' = power /\ modules' = modules
                  /\ trace' = Append(trace, Ev("create_prime_settings", "", 0, TRUE))]_vars
    /\ []((Returned /\ EpEvents /= <<>> /\ EpEvents[1].op = "create_prime_settings")
          => IF EpEvents[1].res = 1
             THEN /\ ep.ret
                  /\ EpEvents[2].op = "create_prime_outputclass"
                  /\ EpEvents[2].res = 1 => fs["outputclass"] = File(<<OutputClassText>>)
                  /\ \/ is_module_loaded(modules, "nvidia")
                     \/ \E i \in Calls(EpEvents, "load_module", "nvidia") :
                            EpEvents[i].res = 0 \/ ~EpEvents[i].sys
             ELSE /\ ~ep.ret
                  /\ Len(EpEvents) = 1
                  /\ power = "unset")

\* the settings file was missing, and was created; the OutputClass was
\* written and nvidia loaded
C7_Witness ==
    /\ Returned
    /\ EpEvents[1] = Ev("create_prime_settings", "", 1, TRUE)
    /\ fs["prime_settings"] = File(<<OnText>>)
    /\ fs["outputclass"] = File(<<OutputClassText>>)
    /\ Calls(EpEvents, "load_module", "nvidia") /= {}
    /\ is_module_loaded(modules, "nvidia")

\* C8: mode on writes the OutputClass, removes the ServerLayout, sets the
\* power control to on and loads nvidia, in that order; afterwards the
\* OutputClass exists if its write worked, the ServerLayout does not unless
\* unlink failed, the power control is on if it could be written, and a
\* load was requested exactly when nvidia was not loaded.
C8_ModeOn ==
    /\ [][(pc = "prime_mode" /\ ep.prime_mode = "ON")
          => /\ pc' = "enable_prime_done"
             /\ Len(trace') = Len(trace) + (IF is_module_loaded(modules, "nvidia") THEN 3 ELSE 4)
             /\ is_module_loaded(modules, "nvidia") => modules' = modules]_vars
    /\ []((Returned /\ ep.prime_mode = "ON")
          => /\ ep.ret
             /\ Len(EpBody) \in {3, 4}
             /\ EpBody[1].op = "create_prime_outputclass"
             /\ EpBody[2].op = "remove_offload_serverlayout"
             /\ EpBody[3].op = "manage_power_management" /\ EpBody[3].arg = "on"
             /\ Len(EpBody) = 4 => EpBody[4].op = "load_module" /\ EpBody[4].arg = "nvidia"
             /\ EpBody[1].res = 1 => fs["outputclass"] = File(<<OutputClassText>>)
             /\ EpBody[2].res \in {0, 0 - ENOENT} => ~fs["serverlayout"].exists
             /\ EpBody[3].res = 1 => power = "on"
             /\ Len(EpBody) = 3 => is_module_loaded(modules, "nvidia")
             /\ (Len(EpBody) = 4 /\ EpBody[4].res = 1 /\ EpBody[4].sys)
                    => is_module_loaded(modules, "nvidia"))

\* mode on ran with both fragments there and nvidia not loaded
C8_Witness ==
    /\ Returned
    /\ ep.prime_mode = "ON"
    /\ EpBody[2].res = 0
    /\ Len(EpBody) = 4
    /\ fs["outputclass"] = File(<<OutputClassText>>)
    /\ ~fs["serverlayout"].exists
    /\ power = "on"
    /\ is_module_loaded(modules, "nvidia")

(***************************************************************************)
(* Properties of the policy engine                                         *)
(***************************************************************************)
\* main's own removal of the ServerLayout, in the single NVIDIA branch
MainRemovals == Calls(trace, "remove_offload_serverlayout", "main")

\* C9: with exactly one device, an NVIDIA boot display, the ServerLayout is
\* removed if it exists (and can be unlinked), the removal returning 0; if
\* it does not exist the removal returns -ENOENT and the log says nothing
\* to do; in both cases the run ends there, no module is loaded or
\* unloaded, the power control is not written and the OutputClass is as
\* it was.
C9_SingleNvidia ==
    /\ [][(pc = "policy" /\ nr_cards = 1 /\ BootVendor = NVIDIA)
          => /\ pc' = "end"
             /\ modules' = modules
             /\ power' = power
             /\ \A p \in Paths \ {"serverlayout"} : fs'[p] = fs[p]
             /\ IF ~fs["serverlayout"].exists
                THEN /\ fs' = fs
                     /\ trace' = trace \o
                            <<Ev("remove_offload_serverlayout", "main", 0 - ENOENT, TRUE),
                              Ev("nothing_to_do", "", 0, FALSE)>>
                ELSE "serverlayout" \notin ro =>
                     /\ ~fs'["serverlayout"].exists
                     /\ trace' = Append(trace,
                                        Ev("remove_offload_serverlayout", "main", 0, TRUE))]_vars
    /\ [](MainRemovals /= {}
          => /\ Ended
             /\ power = "unset"
             /\ \A i \in 1..Len(trace) :
                    trace[i].op \notin {"load_module", "unload_module", "enable_prime",
                                        "manage_power_management", "create_prime_outputclass",
                                        "remove_prime_outputclass", "run_amdgpu_pro_px"})

\* a stale ServerLayout was removed from a single NVIDIA system that has an
\* OutputClass
C9_Witness ==
    /\ Ended
    /\ \E i \in MainRemovals : trace[i].res = 0
    /\ nr_cards = 1
    /\ BootVendor = NVIDIA
    /\ ~fs["serverlayout"].exists
    /\ fs["outputclass"].exists

\* the branches taken: enable_prime from either caller, either call of
\* amdgpu-pro-px, main's removal of the ServerLayout
Branches ==
    {i \in 1..Len(trace) :
        \/ trace[i].op = "enable_prime"
        \/ trace[i].op = "run_amdgpu_pro_px"
        \/ trace[i].op = "remove_offload_serverlayout" /\ trace[i].arg = "main"}

\* C10: in a run at most one of single-Intel PRIME, Optimus, amdgpu-pro-px
\* reset, amdgpu-pro-px powersaving and the single NVIDIA removal is taken.
C10_OneBranch == Cardinality(Branches) <= 1

\* on a changed Intel hybrid with the AMDGPU-Pro stack and everything
\* Optimus asks for, only amdgpu-pro-px was run
C10_Witness ==
    /\ Ended
    /\ nr_cards > 1
    /\ AmdgpuProCond
    /\ OptimusCond
    /\ Cardinality(Branches) = 1
    /\ \E i \in Branches : trace[i].arg = "mode powersaving"


\* C11: where no command and no file operation fails and amdgpu-pro-px is not
\* installed, the second run on the same bus, settings file and module facts
\* leaves the machine (every file, the loaded modules, the power control) as
\* the first run left it
C11_Idempotent ==
    (pc = "end" /\ Len(prev_run) = 1 /\ ~env.faults /\ ~loc.amdgpu_pro_px_installed)
        => Left = prev_run[1]

(***************************************************************************)
(* The offloading marker                                                   *)
(***************************************************************************)
\* enable_prime returned true to main
PrimeSucceeded ==
    \E i \in 1..Len(trace) : trace[i].op = "enable_prime_return" /\ trace[i].res = 1

\* the marker holds what set_offloading writes (no system starts with it)
MarkerWritten == fs["offloading_conf"] = File(<<MarkerText>>)

\* C12 as stated: after enable_prime returned success the marker holds ON,
\* and it holds ON in no other run.
C12_AlwaysWritten ==
    /\ (Ended /\ PrimeSucceeded) => MarkerWritten
    /\ MarkerWritten => PrimeSucceeded

\* C12: after enable_prime returned success main calls set_offloading, which
\* outside a dry run writes ON to the marker if it can be opened and in a dry
\* run writes nothing; the marker is written in no other run.
C12_MarkerAfterSuccess ==
    /\ (Ended /\ PrimeSucceeded) =>
          /\ trace[Len(trace)].op = "set_offloading"
          /\ trace[Len(trace)].sys = ~cfg.dry_run
          /\ (~cfg.dry_run /\ "offloading_conf" \notin ro) => MarkerWritten
    /\ cfg.dry_run => ~MarkerWritten
    /\ MarkerWritten => PrimeSucceeded

\* PRIME was switched off by a run that is no dry run, and the marker holds ON
C12_Witness ==
    /\ Ended
    /\ ~cfg.dry_run
    /\ PrimeSucceeded
    /\ ep.prime_mode = "OFF"
    /\ MarkerWritten

\* the inventory of this run has been taken, from the bus or the fake file
Detections ==
    {i \in 1..Len(trace) :
        \/ trace[i].op = "get_current_devices" /\ trace[i].res = 0
        \/ trace[i].op = "read_data_from_file" /\ trace[i].arg = "fake_lspci"
                                              /\ trace[i].res /= 0}

\* C13: in a run that is no dry run, once the inventory is taken and
\* offloading is not required, the unlink of the marker is the next thing
\* done (before the last-boot file is read and before any branch) and the
\* marker is absent from then on to the end, unless it cannot be unlinked;
\* so a marker at the end means offloading was required.
C13_MarkerRemoved ==
    (~cfg.dry_run /\ Detections /= {}) =>
        /\ ~loc.offloading =>
              /\ \A i \in Detections : i < Len(trace) /\ trace[i + 1].op = "unlink"
              /\ "offloading_conf" \notin ro => ~fs["offloading_conf"].exists
        /\ (fs["offloading_conf"].exists /\ "offloading_conf" \notin ro) => loc.offloading

\* a run has ended in which offloading was not required, a policy branch was
\* taken, and the marker it started with is gone
C13_Witness ==
    /\ Ended
    /\ ~cfg.dry_run
    /\ Detections /= {}
    /\ ~loc.offloading
    /\ Branches /= {}
    /\ ~fs["offloading_conf"].exists

(***************************************************************************)
(* The settings reader                                                     *)
(***************************************************************************)
\* the first line of the settings file, <<>> when there is none
FirstLine ==
    LET f == fs["prime_settings"]
    IN IF f.exists /\ Len(f.lines) > 0 THEN f.lines[1] ELSE <<>>

\* the text has the word in it somewhere, in whatever case
Contains(text, word) ==
    \E i \in 1..Len(text) :
        /\ i + Len(word) - 1 <= Len(text)
        /\ [j \in 1..Len(word) |-> toupper(text[i + j - 1])] =
           [j \in 1..Len(word) |-> toupper(word[j])]

OnDemandWord == <<"o", "n", "-", "d", "e", "m", "a", "n", "d">>

C15_ShortCircuit ==
    [][env.disabled_in_cmdline =>
          /\ pc = "main"
          /\ pc' = "end"
          /\ trace' = <<Ev("parse_cmd_line", "", 0 - EPERM, FALSE)>>
          /\ loc' = InitLoc
          /\ current_devices' = <<>>
          /\ old_devices' = <<>>
          /\ fs' = fs
          /\ modules' = modules
          /\ power' = power]_vars

\* the run was ended by the kernel parameter with the marker and the
\* last-boot file in place
C15_Witness ==
    /\ env.disabled_in_cmdline
    /\ Ended
    /\ trace = <<Ev("parse_cmd_line", "", 0 - EPERM, FALSE)>>
    /\ fs["offloading_conf"].exists
    /\ fs["last_boot"].exists
    /\ current_devices = <<>>

(***************************************************************************)
(* The module commands                                                     *)
(***************************************************************************)
\* C16: in a dry run load_module and unload_module run no command and
\* return true for every module, whatever the command would have given;
\* outside a dry run they run it and return true exactly when its exit
\* status is 0.
C16_DryRunModules ==
    pc = "acted_upon_module" =>
        /\ trace[1].op = (IF loc.mode = 1 THEN "load_module" ELSE "unload_module")
        /\ trace[1].arg = loc.module
        /\ cfg.dry_run => ~trace[1].sys /\ trace[1].res = 1
        /\ ~cfg.dry_run => trace[1].sys /\ (trace[1].res = 1 <=> loc.exit_ok)

\* in a dry run the unload of nvidia, which rmmod would have refused, is
\* reported as done
C16_Witness ==
    /\ pc = "acted_upon_module"
    /\ cfg.dry_run
    /\ loc.module = "nvidia"
    /\ loc.mode = 0
    /\ ~loc.exit_ok
    /\ trace[1].res = 1
    /\ ~trace[1].sys

(***************************************************************************)
(* The order of the persisted inventory and the policy                     *)
(***************************************************************************)
Writes == {i \in 1..Len(trace) : trace[i].op = "write_data_to_file"}

\* enable_prime returned false to main
PrimeFailed ==
    \E i \in 1..Len(trace) : trace[i].op = "enable_prime_return" /\ trace[i].res = 0

\* C17 as stated: the inventory file is written only after a policy branch
\* has been through its actions.
C17_WrittenAfterBranch ==
    \A w \in Writes : Branches /= {} /\ \A b \in Branches : b < w

\* C17: the inventory file is written once, with success, before the policy
\* branch is entered and never after; when enable_prime then fails on a
\* hybrid, the run ends with this boot's inventory in the file.
C17_WrittenBeforeBranch ==
    /\ Cardinality(Writes) <= 1
    /\ \A b \in Branches : \E w \in Writes : w < b /\ trace[w].res = 1
    /\ (Ended /\ PrimeFailed /\ ep.caller = "optimus") =>
           fs[cfg.new_boot_file] = InventoryFile(current_devices)

\* enable_prime failed on a hybrid whose last-boot file was missing, and the
\* file now holds the two cards
C17_Witness ==
    /\ Ended
    /\ PrimeFailed
    /\ ep.caller = "optimus"
    /\ nr_cards = 2
    /\ \E i \in 1..Len(trace) : /\ trace[i].op = "read_data_from_file"
                                 /\ trace[i].arg = "last_boot"
                                 /\ trace[i].res = 2
    /\ fs["last_boot"] = InventoryFile(current_devices)

(***************************************************************************)
(* The room in struct gpus                                                 *)
(***************************************************************************)
\* C18: whatever the number of bus devices, of lines in the file and of
\* marker files, the inventory built by get_current_devices, by
\* read_data_from_file or by find_disabled_cards with add_gpu_from_file has
\* at most MAX_NR_CARDS cards (no element of cards[] past the last is
\* written), and get_current_devices still returns 0.
C18_NeverOverCap ==
    pc = "got_cards" => Len(current_devices) <= MAX_NR_CARDS /\ status \in {0, 1}

(***************************************************************************)
(* Failures                                                                *)
(***************************************************************************)
\* the creations of a fragment that failed
FailedFragments ==
    {i \in 1..Len(trace) :
        /\ trace[i].op \in {"create_prime_outputclass", "create_offload_serverlayout"}
        /\ trace[i].res = 0}

\* C19: after the OutputClass or the ServerLayout could not be written, the
\* run makes no power-control change, no module load and no marker write,
\* and it ends.
C19_FragmentFailureSkips ==
    \A i \in FailedFragments : \A j \in (i + 1)..Len(trace) :
        trace[j].op \notin {"manage_power_management", "load_module", "set_offloading"}

\* the writes of the inventory file that failed
FailedWrites == {w \in Writes : trace[w].res = 0}

\* C20 as stated: after the new-boot file could not be opened for writing
\* the run goes on: the boot display is looked for and something is done or
\* logged by a branch.
C20_WriteFailureGoesOn ==
    (Ended /\ FailedWrites /= {}) =>
        /\ loc.boot_device /= 0
        /\ \A w \in FailedWrites : w < Len(trace)

\* C20: when the new-boot file cannot be opened for writing the run ends
\* there: the inventories are not compared, the boot display is not looked
\* for, no branch is entered, and no file, module or power control changes
\* afterwards.
C20_WriteFailureEnds ==
    \A w \in FailedWrites :
        /\ pc = "end"
        /\ w = Len(trace)
        /\ ~has_changed
        /\ loc.boot_device = 0
        /\ Branches = {}
        /\ power = "unset"

\* the write failed on a hybrid with a boot display that differs from the
\* last boot (whose file was missing), and the run is over
C20_Witness ==
    /\ Ended
    /\ FailedWrites /= {}
    /\ get_boot_vga(current_devices) /= 0
    /\ nr_cards = 2
    /\ status = 2

(***************************************************************************)
(* The end of the reclaim protocol                                         *)
(***************************************************************************)
\* enable_prime gave up on unloading nvidia
Givings == {i \in 1..Len(trace) : trace[i].op = "giving_up"}

\* C21: when the unload fails again after the session kill (tries = 1) with
\* nvidia still loaded, enable_prime gives up: this was the second unload
\* and the only kill, nothing is unloaded, killed or written to the power
\* control afterwards, enable_prime returns false, nvidia stays loaded and
\* the run does not write the offloading marker.
C21_GivesUp ==
    /\ \A g \in Givings :
          /\ Cardinality(Unloads) = 2
          /\ Cardinality(Kills) = 1
          /\ \A j \in (g + 1)..Len(trace) :
                 trace[j].op \notin {"unload_module", "kill_main_display_session",
                                     "manage_power_management", "set_offloading"}
          /\ ~ep.ret
          /\ is_module_loaded(modules, "nvidia")
          /\ ~MarkerWritten
    /\ (/\ Entered
        /\ pc \in {"enable_prime_done", "end"}
        /\ Cardinality(Unloads) = 2
        /\ \A i \in Unloads : EpEvents[i].res = 0
        /\ is_module_loaded(modules, "nvidia"))
       => Givings /= {}

\* the run ended after enable_prime gave up, nvidia loaded and no marker
C21_Witness ==
    /\ Ended
    /\ ~cfg.dry_run
    /\ Givings /= {}
    /\ PrimeFailed
    /\ is_module_loaded(modules, "nvidia")
    /\ ~fs["offloading_conf"].exists

(***************************************************************************)
(* unload_nvidia                                                           *)
(***************************************************************************)
\* C22: each call of unload_nvidia asks for the unload of nvidia-drm,
\* nvidia-uvm, nvidia-modeset and then nvidia, and its result (status in
\* enable_prime) is that of the unload of nvidia, whatever the three others
\* gave.
C22_UnloadOrder ==
    [][(pc = "unload_again" /\ is_module_loaded(modules, "nvidia")) =>
          LET n == Len(trace)
          IN /\ Len(trace') >= n + 4
             /\ \A k \in 1..4 : trace'[n + k].op = "unload_module"
             /\ trace'[n + 1].arg = "nvidia-drm"
             /\ trace'[n + 2].arg = "nvidia-uvm"
             /\ trace'[n + 3].arg = "nvidia-modeset"
             /\ trace'[n + 4].arg = "nvidia"
             /\ ep'.status = (trace'[n + 4].res = 1)]_vars

\* rmmod failed for the companions and worked for nvidia: unload_nvidia
\* returned true
C22_Witness ==
    /\ Entered
    /\ ~cfg.dry_run
    /\ Cardinality(Unloads) = 1
    /\ \E i \in Unloads :
          /\ i >= 4
          /\ EpEvents[i].res = 1
          /\ EpEvents[i - 1].arg = "nvidia-modeset" /\ EpEvents[i - 1].res = 0
          /\ EpEvents[i - 2].arg = "nvidia-uvm" /\ EpEvents[i - 2].res = 0
          /\ EpEvents[i - 3].arg = "nvidia-drm" /\ EpEvents[i - 3].res = 0
    /\ ep.status
    /\ ep.ret

(***************************************************************************)
(* The cards of the marker files                                           *)
(***************************************************************************)
\* the calls of find_disabled_cards
Finds == {i \in 1..Len(trace) : trace[i].op = "find_disabled_cards"}

\* the cards that came from the bus or the fake file
Live == IF Finds = {} THEN current_devices ELSE SubSeq(current_devices, 1, 1)

\* C23: the cards of the marker files are added by the single-Intel PRIME
\* branch alone, after the inventory was written and compared: until then
\* (and in every other branch) the inventory is the one of the bus or of
\* the fake file, and the file written holds these cards and no other to
\* the end of the run.
C23_MarkersNotPersisted ==
    /\ \A f \in Finds :
          /\ Writes /= {}
          /\ \A w \in Writes : w < f /\ trace[w].res = 1
          /\ f < Len(trace) => (trace[f + 1].op = "enable_prime" /\ trace[f + 1].arg = "prime")
          /\ trace[f].res = 1 + Len(env.markers)
    /\ (Detections /= {} /\ ~cfg.fake_lspci) => Live = get_current_devices(env).gpus
    /\ (Detections /= {} /\ cfg.fake_lspci) =>
          LET f == fs["fake_lspci"]
              r == read_data_from_file(f, TRUE, <<>>, [i \in 1..(Len(f.lines) + 1) |-> -1])
          IN Live = [i \in 1..Len(r.gpus) |-> [r.gpus[i] EXCEPT !.has_connected_outputs = -1]]
    /\ (Writes /= {} /\ \A w \in Writes : trace[w].res = 1) =>
          fs[cfg.new_boot_file] = InventoryFile(Live)

\* two cards were added from marker files and the file written holds the
\* Intel card alone
C23_Witness ==
    /\ Ended
    /\ Finds /= {}
    /\ Len(env.markers) = 2
    /\ nr_cards = 3
    /\ fs[cfg.new_boot_file] = InventoryFile(<<current_devices[1]>>)
    /\ PrimeSucceeded

(***************************************************************************)
(* The branches for several cards                                          *)
(***************************************************************************)
\* main has chosen its branch: the inventory was written and a boot display
\* was found
PastPolicy ==
    /\ pc \notin {"main", "devices", "read_last", "write_new", "policy"}
    /\ Writes /= {}
    /\ \A w \in Writes : trace[w].res = 1
    /\ loc.boot_device /= 0

\* several cards came from the bus or the fake file, and the boot display is
\* an Intel one
SeveralIntel == PastPolicy /\ Finds = {} /\ nr_cards > 1 /\ BootVendor = INTEL

\* enable_prime was called by the Optimus branch
OptimusRan ==
    \E i \in 1..Len(trace) : trace[i].op = "enable_prime" /\ trace[i].arg = "optimus"

\* C24 as stated: with several cards and an Intel boot display the Optimus
\* branch runs exactly when offloading is required, nvidia is loaded or its
\* kernel module is available, nouveau is not loaded and the AMDGPU-Pro
\* switchable condition does not hold.
C24_OptimusExactly ==
    SeveralIntel =>
        (OptimusRan <=> (/\ loc.offloading
                         /\ (loc.nvidia_loaded \/ loc.nvidia_kmod_available)
                         /\ ~loc.nouveau_loaded
                         /\ ~AmdgpuProCond))

\* C24: with several cards and an Intel boot display the Optimus branch runs
\* exactly when a card is not the boot display, offloading is required, the
\* Intel module (i915 or i810) is loaded, nvidia is loaded or its kernel
\* module is available, nouveau is not loaded and the AMDGPU-Pro switchable
\* condition does not hold; enable_prime is then given the first card that
\* is not the boot display.
C24_OptimusWithIntelLoaded ==
    SeveralIntel =>
        /\ OptimusRan <=> (/\ get_first_discrete(current_devices) /= 0
                           /\ loc.offloading
                           /\ loc.intel_loaded
                           /\ (loc.nvidia_loaded \/ loc.nvidia_kmod_available)
                           /\ ~loc.nouveau_loaded
                           /\ ~AmdgpuProCond)
        /\ OptimusRan => /\ loc.discrete_device = get_first_discrete(current_devices)
                         /\ current_devices[loc.discrete_device].boot_vga = 0
                         /\ \A i \in 1..(loc.discrete_device - 1) :
                                current_devices[i].boot_vga /= 0
                         /\ ep.caller = "optimus"

\* the Optimus branch has run against the second card, and a run like it
\* but for the Intel module would not
C24_Witness ==
    /\ Ended
    /\ SeveralIntel
    /\ OptimusRan
    /\ loc.discrete_device = 2
    /\ ~loc.nvidia_loaded /\ loc.nvidia_kmod_available

\* run_amdgpu_pro_px was called with the action
ProPxRan(action) ==
    \E i \in 1..Len(trace) : trace[i].op = "run_amdgpu_pro_px" /\ trace[i].arg = action

\* the system has changed, amdgpu is loaded, its module is available and
\* versioned, and amdgpu-pro-px is installed
ProStackChanged ==
    /\ has_changed
    /\ loc.amdgpu_loaded
    /\ loc.amdgpu_kmod_available /\ loc.amdgpu_versioned
    /\ loc.amdgpu_pro_px_installed

\* C25: amdgpu-pro-px is called with reset exactly when main finds a single
\* card, an AMD boot display, on a changed system with amdgpu loaded, its
\* module available and versioned and amdgpu-pro-px installed; it is called
\* with mode powersaving exactly when main finds several cards (one of them
\* not a boot display), an Intel boot display and the same four conditions,
\* and then enable_prime is not called. The command is given to the system
\* unless the run is a dry run.
C25_ProPxExactly ==
    /\ (ProPxRan("reset") \/ ProPxRan("mode powersaving")) => PastPolicy
    /\ PastPolicy =>
          /\ ProPxRan("reset") <=>
                (Finds = {} /\ nr_cards = 1 /\ BootVendor = AMD /\ ProStackChanged)
          /\ ProPxRan("mode powersaving") <=>
                (/\ Finds = {} /\ nr_cards > 1
                 /\ get_first_discrete(current_devices) /= 0
                 /\ BootVendor = INTEL /\ ProStackChanged)
          /\ ProPxRan("mode powersaving") => ~Entered
    /\ \A i \in 1..Len(trace) :
          trace[i].op = "run_amdgpu_pro_px" =>
              /\ trace[i].sys = ~cfg.dry_run
              /\ \A j \in 1..Len(trace) : trace[j].op = "run_amdgpu_pro_px" => j = i

\* amdgpu-pro-px was run with mode powersaving on a system where the
\* Optimus test holds too, and enable_prime was not called
C25_Witness ==
    /\ Ended
    /\ ~cfg.dry_run
    /\ ProPxRan("mode powersaving")
    /\ OptimusCond
    /\ ~Entered

(***************************************************************************)
(* The cases in which nothing is done                                      *)
(***************************************************************************)
\* what main finds at its branches when none of them acts
NoOpCombination ==
    \/ nr_cards > 1 /\ BootVendor /= INTEL
    \/ nr_cards = 1 /\ BootVendor \notin {INTEL, AMD, NVIDIA}
    \/ nr_cards = 1 /\ BootVendor = INTEL /\ ~(loc.offloading /\ loc.nvidia_unloaded)
    \/ nr_cards > 1 /\ BootVendor = INTEL /\ ~ProStackChanged /\ ~OptimusCond

\* the calls that act on the system
EffectOps ==
    {"load_module", "unload_module", "create_prime_outputclass",
     "create_offload_serverlayout", "remove_prime_outputclass",
     "remove_offload_serverlayout", "manage_power_management", "run_amdgpu_pro_px",
     "kill_main_display_session", "set_offloading", "enable_prime", "find_disabled_cards"}

\* C26: when no boot display is found, or several cards have a boot display
\* that is not Intel, or the single card is neither Intel nor AMD nor NVIDIA,
\* or the single card is Intel without offloading required and nvidia
\* unloaded, or several cards have an Intel boot display and neither the
\* AMDGPU-Pro nor the Optimus test holds, the run ends at once: the step
\* leaves the modules, the power control and every file as they were (but
\* for the inventory file in the step that writes it), and the whole run
\* has loaded or unloaded no module, created or removed no fragment, written
\* no power control, called neither amdgpu-pro-px nor the session kill and
\* not written the offloading marker.
C26_NoOp ==
    /\ [][(pc = "write_new" /\ wstatus' /\ loc'.boot_device = 0)
          => /\ pc' = "end"
             /\ modules' = modules
             /\ power' = power
             /\ \A p \in Paths \ {cfg.new_boot_file} : fs'[p] = fs[p]]_vars
    /\ [][(pc = "policy" /\ NoOpCombination)
          => /\ pc' = "end"
             /\ modules' = modules
             /\ power' = power
             /\ fs' = fs
             /\ trace' \in {trace, Append(trace, Ev("nothing_to_do", "", 0, FALSE))}]_vars
    /\ []((/\ Ended
           /\ Writes /= {}
           /\ \A w \in Writes : trace[w].res = 1
           /\ Finds = {}
           /\ (loc.boot_device /= 0 => NoOpCombination))
          => /\ \A i \in 1..Len(trace) : trace[i].op \notin EffectOps
             /\ ~MarkerWritten
             /\ power = "unset")

\* an Intel boot display and an NVIDIA card with offloading required and
\* nvidia available, where nouveau is loaded: nothing was done
C26_Witness ==
    /\ Ended
    /\ SeveralIntel
    /\ NoOpCombination
    /\ loc.offloading /\ loc.nvidia_kmod_available /\ loc.nouveau_loaded
    /\ current_devices[get_first_discrete(current_devices)].vendor_id = NVIDIA
    /\ trace[Len(trace)].op = "nothing_to_do"

(***************************************************************************)
(* Offloading and the connected outputs                                    *)
(***************************************************************************)
\* the nodes of /dev/dri whose driver name holds i915
I915Nodes == {n \in 1..Len(env.drm) : strstr(env.drm[n].name, DrvI915)}

\* the cards that are boot displays
BootCards == {i \in 1..nr_cards : current_devices[i].boot_vga /= 0}

ScanFailed ==
    \E i \in 1..Len(trace) : trace[i].op = "get_current_devices" /\ trace[i].res /= 0

\* C28: when get_current_devices fails (the bus cannot be initialised, the
\* iterator cannot be created, or a device of the inventory cannot be
\* allocated) the inventory is empty and the run ends at once: the step
\* leaves every file (the offloading marker and the inventory files among
\* them), the modules and the power control as they were, and the failed
\* call is the last thing the run does.
C28_ScanFailureEnds ==
    /\ [][(/\ pc = "devices"
           /\ ~cfg.fake_lspci
           /\ \/ env.pci_fail \in {"init", "iterator"}
              \/ env.pci_fail = "alloc" /\ ScanBus(env.pci, env.drm, 1, <<>>) /= <<>>)
          => /\ pc' = "end"
             /\ current_devices' = <<>>
             /\ fs' = fs
             /\ modules' = modules
             /\ power' = power
             /\ Len(trace') = Len(trace) + 1
             /\ trace'[Len(trace')].op = "get_current_devices"
             /\ trace'[Len(trace')].res /= 0]_vars
    /\ [](ScanFailed
          => /\ Ended
             /\ current_devices = <<>>
             /\ trace[Len(trace)].op = "get_current_devices"
             /\ \A i \in 1..Len(trace) :
                    trace[i].op \notin {"unlink", "read_data_from_file", "write_data_to_file",
                                        "nothing_to_do"} \cup EffectOps)

\* the second device could not be allocated: the run has ended with no card,
\* the marker is still there and the last-boot file was not touched
C28_Witness ==
    /\ Ended
    /\ ScanFailed
    /\ env.pci_fail = "alloc"
    /\ current_devices = <<>>
    /\ fs["offloading_conf"].exists
    /\ ~requires_offloading(ScanBus(env.pci, env.drm, 1, <<>>))

(***************************************************************************)
(* What a success of mode off says about the module                        *)
(***************************************************************************)
\* C29: outside a dry run, when enable_prime returns true from mode off the
\* nvidia module is not loaded, and the marker is written by main only
\* then; so after a first unload that failed with the module loaded and a
\* session kill that failed too, enable_prime does not return true.
C29_SuccessMeansUnloaded ==
    /\ (ReturnedOff /\ ~cfg.dry_run /\ ep.ret) => ~is_module_loaded(modules, "nvidia")
    /\ (/\ Ended /\ Entered /\ ~cfg.dry_run
        /\ ep.prime_mode = "OFF"
        /\ MarkerWritten) => ~is_module_loaded(modules, "nvidia")
    /\ (/\ ReturnedOff /\ ~cfg.dry_run
        /\ \E k \in Kills : EpEvents[k].res = 0
        /\ \E u \in Unloads : EpEvents[u].res = 0) => ~ep.ret

(***************************************************************************)
(* The card given to enable_prime                                          *)
(***************************************************************************)
\* C30: whenever enable_prime is called, the discrete card it is given is an
\* NVIDIA card (vendor 0x10DE).
C30_DiscreteIsNvidia ==
    Entered =>
        /\ loc.discrete_device \in 1..nr_cards
        /\ current_devices[loc.discrete_device].vendor_id = NVIDIA

====
